---- MODULE Spec2Model ----
(***************************************************************************)
(* State-machine model of RappManager (rocon_app_manager/rapp_manager.py): *)
(* the invitation protocol, the start/stop lifecycle of the single rapp,   *)
(* the flips sent to the gateway, the monitoring thread and the rebinding  *)
(* of the services in spin().                                              *)
(*                                                                         *)
(* rospy runs every service callback on the thread of the connection the   *)
(* request came in on, spin() runs on the main thread and every            *)
(* _process_start_app that succeeds starts a monitor thread; no lock is    *)
(* taken anywhere. Thread 0 is the main thread, the threads after it serve *)
(* the requests and the last ones are the monitor threads. Every method is *)
(* cut into steps at its blocking calls and at its reads and writes of the *)
(* attributes the threads share: a step makes one access to an attribute   *)
(* that another thread reads or writes, or one call of a collaborator.     *)
(***************************************************************************)
EXTENDS Integers, Sequences, FiniteSets, TLC

\* Largest number of service requests in progress at the same time.
MaxHandlers == 2

\* Largest number of calls to a collaborator (capability server, rapp launch,
\* gateway, rospy) that fail in one behaviour; each deployment says how many
\* of its calls do.
FewFaults == 1
MaxFaults == 2

\* Largest number of service requests one behaviour takes up; each
\* deployment says how many its clients make when they call side by side
\* and when one client makes one call after the other.
FewRequests == 2
MaxRequests == 3
MaxSerialRequests == 4

None == "None"

Main == 0
Handlers == 1..MaxHandlers
\* Every monitor thread is started by a start_app request: there are never
\* more of them than requests.
Monitors == (MaxHandlers + 1)..(MaxHandlers + MaxSerialRequests)
Threads == {Main} \cup Handlers \cup Monitors

(***************************************************************************)
(* Deployment data: what the constructor reads from the parameters, the    *)
(* rapp lists, the capability list and the gateway.                        *)
(***************************************************************************)
Remotes == {"ops-console", "intruder", "anyone", "banned"}

RobotName == "app_manager"
default_application_namespace == "application"
NamespaceOverrides == {"", "custom_ns"}

AppNames == {"nav_app", "chatter", "teleop", "arm_app", "ghost_app"}
Capabilities == {"lidar_driver", "odometry"}

\* 'required_capabilities' in rapp.data
HasRequiredCapabilities(app) == app \in {"nav_app", "arm_app"}

\* rapp.data['required_capabilities'], names in declaration order
RequiredCapabilities(app) ==
    CASE app = "nav_app" -> <<"lidar_driver", "odometry">>
      [] app = "arm_app" -> <<"arm_driver">>
      [] OTHER -> <<>>

ConnectionTypes ==
    <<"subscriber", "publisher", "service", "action_client", "action_server">>
Kinds == {ConnectionTypes[i] : i \in 1..Len(ConnectionTypes)}

NoConnections == [k \in Kinds |-> {}]

\* The five connection lists a rapp reports from start() and stop().
Connections(app) ==
    CASE app = "nav_app" -> [NoConnections EXCEPT !["subscriber"] = {"cmd_vel"}]
      [] app = "chatter" -> [NoConnections EXCEPT !["publisher"] = {"chatter"}]
      [] app = "teleop" -> [NoConnections EXCEPT !["action_server"] = {"drive"}]
      [] OTHER -> NoConnections

\* The deployments the model is run in: the controller lists
\* (~remote_controller_whitelist, ~remote_controller_blacklist), the keys of
\* self.apps['pre_installed'] and self.apps['runnable'], the name the
\* gateway reports once it is connected (None: it never is), the remote
\* systems that send invitations, with the namespaces they ask for, the
\* rapps start_app is called for, the collaborators whose calls can fail
\* and how many of their calls do, the number of connections the requests
\* come in on, whether requests are sent before the node is up (while
\* __init__ runs), and the number of requests the clients make, on these
\* connections and when one client makes one call after the other.
Deployments ==
    { [whitelist |-> {"ops-console"}, blacklist |-> {},
       pre_installed |-> {"nav_app", "arm_app"}, runnable |-> {"nav_app"},
       gateway_info |-> None,
       peers |-> {}, overrides |-> {""},
       asked |-> {"nav_app", "arm_app", "ghost_app"},
       faulty |-> {"capabilities", "rapp"}, failures |-> FewFaults,
       clients |-> MaxHandlers, early |-> FALSE,
       requests |-> FewRequests, serial_requests |-> MaxRequests],
      [whitelist |-> {"ops-console"}, blacklist |-> {},
       pre_installed |-> {}, runnable |-> {},
       gateway_info |-> None,
       peers |-> {"ops-console", "intruder"}, overrides |-> {"", "custom_ns"},
       asked |-> {},
       faulty |-> {}, failures |-> FewFaults,
       clients |-> MaxHandlers, early |-> TRUE,
       requests |-> FewRequests, serial_requests |-> FewRequests],
      [whitelist |-> {"ops-console"}, blacklist |-> {"ops-console", "banned"},
       pre_installed |-> {"chatter", "teleop"}, runnable |-> {"chatter", "teleop"},
       gateway_info |-> None,
       peers |-> {}, overrides |-> {""},
       asked |-> {"chatter", "teleop"},
       faulty |-> {}, failures |-> FewFaults,
       clients |-> MaxHandlers, early |-> FALSE,
       requests |-> FewRequests, serial_requests |-> MaxSerialRequests],
      [whitelist |-> {}, blacklist |-> {"banned"},
       pre_installed |-> {"chatter"}, runnable |-> {"chatter"},
       gateway_info |-> None,
       peers |-> {"anyone", "ops-console"}, overrides |-> {""},
       asked |-> {"chatter"},
       faulty |-> {}, failures |-> FewFaults,
       clients |-> 1, early |-> FALSE,
       requests |-> MaxRequests, serial_requests |-> MaxRequests],
      [whitelist |-> {}, blacklist |-> {"banned"},
       pre_installed |-> {"chatter"}, runnable |-> {"chatter"},
       gateway_info |-> None,
       peers |-> {"anyone"}, overrides |-> {""},
       asked |-> {"chatter"},
       faulty |-> {"gateway", "rapp"}, failures |-> MaxFaults,
       clients |-> 1, early |-> FALSE,
       requests |-> MaxRequests, serial_requests |-> MaxRequests],
      [whitelist |-> {}, blacklist |-> {"banned"},
       pre_installed |-> {"chatter"}, runnable |-> {"chatter"},
       gateway_info |-> None,
       peers |-> {"ops-console"}, overrides |-> {""},
       asked |-> {"chatter"},
       faulty |-> {"gateway"}, failures |-> FewFaults,
       clients |-> MaxHandlers, early |-> FALSE,
       requests |-> FewRequests, serial_requests |-> FewRequests],
      [whitelist |-> {}, blacklist |-> {"banned"},
       pre_installed |-> {}, runnable |-> {},
       gateway_info |-> None,
       peers |-> {"anyone", "ops-console", "banned"}, overrides |-> {""},
       asked |-> {},
       faulty |-> {}, failures |-> FewFaults,
       clients |-> MaxHandlers, early |-> FALSE,
       requests |-> MaxRequests, serial_requests |-> MaxRequests],
      [whitelist |-> {"ops-console"}, blacklist |-> {"ops-console"},
       pre_installed |-> {"chatter"}, runnable |-> {"chatter"},
       gateway_info |-> "gateway",
       peers |-> {"ops-console"}, overrides |-> {""},
       asked |-> {},
       faulty |-> {}, failures |-> FewFaults,
       clients |-> MaxHandlers, early |-> TRUE,
       requests |-> FewRequests, serial_requests |-> FewRequests],
      [whitelist |-> {}, blacklist |-> {},
       pre_installed |-> {"chatter"}, runnable |-> {"chatter"},
       gateway_info |-> "gateway",
       peers |-> {}, overrides |-> {""},
       asked |-> {"chatter"},
       faulty |-> {}, failures |-> FewFaults,
       clients |-> MaxHandlers, early |-> TRUE,
       requests |-> FewRequests, serial_requests |-> FewRequests],
      [whitelist |-> {}, blacklist |-> {},
       pre_installed |-> {}, runnable |-> {},
       gateway_info |-> "gateway",
       peers |-> {}, overrides |-> {""},
       asked |-> {"chatter"},
       faulty |-> {"ros"}, failures |-> FewFaults,
       clients |-> MaxHandlers, early |-> TRUE,
       requests |-> FewRequests, serial_requests |-> FewRequests],
      [whitelist |-> {}, blacklist |-> {},
       pre_installed |-> {"chatter"}, runnable |-> {"chatter"},
       gateway_info |-> None,
       peers |-> {}, overrides |-> {""},
       asked |-> {"chatter"},
       faulty |-> {}, failures |-> FewFaults,
       clients |-> MaxHandlers, early |-> FALSE,
       requests |-> MaxRequests, serial_requests |-> FewRequests] }

\* The services and latched publishers _init_services creates (lines 158-169),
\* by their keys in self._services and self._publishers, in that order.
ServiceOrder ==
    <<"platform_info", "list_installed_apps", "list_runnable_apps", "status",
      "invite", "start_app", "stop_app", "installed_apps_list",
      "runnable_apps_list">>
ServiceKeys == {ServiceOrder[i] : i \in 1..Len(ServiceOrder)}

\* The order in which self._services.values() gives its objects (line 143):
\* that of the slots the keys' hashes put them into in a CPython 2.7
\* dictionary filled in the order above. The table has 8 slots as long as
\* it holds no more than five keys, which is the case when an earlier
\* _init_services ended at a constructor that raised.
SmallDictOrder ==
    <<"status", "list_installed_apps", "platform_info", "invite", "list_runnable_apps">>

\* The sixth key makes the table one of 32 slots, where the keys fall
\* otherwise. self._default_service_names (line 152) has the seven keys,
\* put in in the same order.
DictOrder ==
    <<"status", "start_app", "invite", "list_installed_apps", "list_runnable_apps",
      "stop_app", "platform_info">>

\* The order in which self._publishers.values() gives its objects (line 145)
PublisherOrder == <<"runnable_apps_list", "installed_apps_list">>

CapOutcomes == {"ok", "refused", "ROSException", "IOError"}

\* What a call of the gateway's flip service can do: accept the batch,
\* reject it (resp.result # 0), or fail in the transport, which rospy
\* reports by raising rospy.service.ServiceException.
FlipOutcomes == {"ok", "rejected", "ServiceException"}

VARIABLES
    whitelist,             \* self._param['remote_controller_whitelist']
    blacklist,             \* self._param['remote_controller_blacklist']
    apps,                  \* self.apps: the names pre_installed and runnable
    gatewayInfo,           \* the connected gateway's name, as gateway_info gives it
    peers,                 \* the remote systems that send invitations
    overrides,             \* the application namespaces their invitations carry
    faulty,                \* the collaborators whose calls can fail
    failures,              \* the number of their calls that do
    early,                 \* are requests sent while __init__ runs?
    clients,               \* the connections requests come in on, each with its thread
    asked,                 \* the rapps the clients call start_app for
    budget,                \* the number of requests the clients make
    gatewayName,           \* self._gateway_name
    serviceNames,          \* self._service_names (start_app, stop_app)
    remoteName,            \* self._remote_name
    currentRapp,           \* self._current_rapp (the rapp's name, or None)
    applicationNamespace,  \* self._application_namespace
    capActive,             \* capability server: the capabilities that are started
    launched,              \* the rapps whose launch is running
    flipped,               \* gateway: the flip rules in force <<remote, type, name>>
    pc,                    \* where each thread is
    frame,                 \* each thread's locals
    req,                   \* the request each handler thread is serving
    resp,                  \* the response each handler thread is about to send
    faults,                \* collaborator calls that have failed so far
    calls,                 \* service requests taken up so far
    initialisingServices,  \* self._initialising_services
    services,              \* self._services and self._publishers: <<key, object>>
    registered             \* rospy: the services and publishers not shut down
params == <<whitelist, blacklist, apps, gatewayInfo, peers, overrides, faulty,
            failures, early, clients, asked, budget>>
gateway == <<gatewayName, serviceNames, initialisingServices, services, registered>>
threads == <<pc, frame, req, resp>>
vars == <<whitelist, blacklist, apps, gatewayInfo, peers, overrides, faulty,
          failures, early, clients, asked, budget,
          gatewayName, serviceNames, remoteName, currentRapp,
          applicationNamespace, capActive, launched, flipped, pc, frame, req,
          resp, faults, calls, initialisingServices, services, registered>>

\* A thread's locals: rapp_name / req.name (name), the rapp object a method
\* call is made on (obj), resp.started / resp.stopped (ok), the connection
\* lists of rapp.start / rapp.stop (conns), the position in the loop the
\* thread is in (i), the namespace handed to rapp.start or written by the
\* invitation (ns), the arguments of the _flip_connections call in progress
\* (remote, names), and for the main thread the number of its call of
\* _init_services (n).
NoFrame == [name |-> None, obj |-> None, ok |-> FALSE, conns |-> NoConnections,
            i |-> 0, ns |-> "", remote |-> None, names |-> {}, n |-> 0]
NoReq == [op |-> "none", name |-> None, slot0 |-> None, ns |-> "", cancel |-> FALSE]
NoResp == [op |-> "none", ok |-> FALSE, msg |-> "", name |-> None, ns |-> ""]

\* _init_services, lines 151-153: the names the services are bound under
ServiceNamesFor(base_name) ==
    [start_app |-> "/" \o base_name \o "/start_app",
     stop_app |-> "/" \o base_name \o "/stop_app"]

\* self._service_names = {}, line 149
NoNames == [start_app |-> None, stop_app |-> None]

\* May a call to this collaborator fail now?
MayFail(collaborator) == collaborator \in faulty /\ faults < failures

\* rospy hands requests for this service to its callback: a service object
\* of that key is registered.
Serving(key) == \E o \in registered : o[1] = key

\* __init__, lines 48-69, as far as into its call of _init_services (lines
\* 137-141): the attributes have their first values, the parameters and the
\* rapp lists are read and no service is registered yet, so that no other
\* thread has run. The call is the main thread's call number 0.
InitFor(serial) ==
    /\ \E d \in Deployments :
          /\ clients = IF serial THEN 1 ELSE d.clients
          /\ early = d.early
          /\ whitelist = d.whitelist
          /\ blacklist = d.blacklist
          /\ apps = [pre_installed |-> d.pre_installed, runnable |-> d.runnable]
          /\ gatewayInfo = d.gateway_info
          /\ peers = d.peers
          /\ overrides = d.overrides
          /\ faulty = d.faulty
          /\ failures = d.failures
          /\ asked = d.asked
          /\ budget = IF serial THEN d.serial_requests ELSE d.requests
    /\ faults = 0
    /\ services = {}
    /\ registered = {}
    /\ gatewayName = None
    /\ serviceNames = NoNames
    /\ remoteName = None
    /\ currentRapp = None
    /\ applicationNamespace = None
    /\ capActive = {}
    /\ launched = {}
    /\ flipped = {}
    /\ pc = [t \in Threads |-> IF t = Main THEN "init_services"
                               ELSE IF t \in Handlers THEN "idle" ELSE "dead"]
    /\ frame = [t \in Threads |-> NoFrame]
    /\ req = [h \in Handlers |-> NoReq]
    /\ resp = [h \in Handlers |-> NoResp]
    /\ initialisingServices = TRUE
    /\ calls = 0
\* Requests come in on the connections of the deployment's clients, side by
\* side.
Init == InitFor(FALSE)

\* All requests come from one client, which waits for each response.
SerialInit == InitFor(TRUE)

(***************************************************************************)
(* Service callbacks: how a handler thread takes a request and returns     *)
(***************************************************************************)
\* __init__ has returned: the node is up and the main thread is in spin.
Constructed == pc[Main] = "spin" \/ frame[Main].n > 0

\* The thread that serves the next request a client sends: of the threads
\* that wait for one, the first. The clients of a deployment send requests
\* while __init__ still runs, as soon as the service is registered, or wait
\* until the node is up, as the deployment says.
Idle(h) ==
    /\ h \in 1..clients
    /\ pc[h] = "idle"
    /\ \A g \in Handlers : g < h => pc[g] # "idle"
    /\ calls < budget
    /\ early \/ Constructed

\* The thread goes on to the step of this label.
Goto(t, label) == pc' = [pc EXCEPT ![t] = label]

\* return resp from a service callback
Return(h, response) ==
    /\ pc' = [pc EXCEPT ![h] = "reply"]
    /\ resp' = [resp EXCEPT ![h] = response]
    /\ frame' = [frame EXCEPT ![h] = NoFrame]
    /\ req' = [req EXCEPT ![h] = NoReq]

\* An exception leaves a service callback: rospy answers the caller with an
\* error.
Raise(h, exception) ==
    Return(h, [op |-> req[h].op, ok |-> FALSE, msg |-> exception,
               name |-> req[h].name, ns |-> ""])

\* The response goes out to the caller and the thread waits for the next
\* request.
Reply(h) ==
    /\ h \in Handlers
    /\ pc[h] = "reply"
    /\ pc' = [pc EXCEPT ![h] = "idle"]
    /\ resp' = [resp EXCEPT ![h] = NoResp]
    /\ UNCHANGED <<params, gateway, remoteName, currentRapp, applicationNamespace,
                   capActive, launched, flipped, frame, req, faults>>
    /\ UNCHANGED calls

(***************************************************************************)
(* spin / _init_services, run by the main thread                           *)
(***************************************************************************)
\* The keys of self._services (lines 159-166); the others are those of
\* self._publishers (lines 168-169).
IsService(key) == key \notin {"installed_apps_list", "runnable_apps_list"}

\* The keys self._services and self._publishers hold, in the order the loops
\* of lines 143-146 take their values: the services in the order of the
\* table their number makes, then the publishers.
Held ==
    LET held(key) == \E o \in services : o[1] = key
        used == Cardinality({key \in ServiceKeys : IsService(key) /\ held(key)})
        order == IF used <= Len(SmallDictOrder) THEN SmallDictOrder ELSE DictOrder
    IN SelectSeq(order, held) \o SelectSeq(PublisherOrder, held)

\* self._services[key], self._publishers[key]
ObjectOf(key) == CHOOSE o \in services : o[1] = key

\* spin, lines 579-584, and _init_services, lines 137-141: the gateway
\* reports a connection, its name is stored and _init_services is called;
\* it returns False at once when the flag is set, and spin polls again.
Spin(name) ==
    /\ pc[Main] = "spin"
    /\ name = gatewayInfo
    /\ gatewayName' = name
    /\ IF initialisingServices
       THEN UNCHANGED <<initialisingServices, pc, frame>>
       ELSE /\ initialisingServices' = TRUE
            /\ Goto(Main, "init_services")
            /\ frame' = [frame EXCEPT ![Main].n = frame[Main].n + 1]
    /\ UNCHANGED <<params, serviceNames, services, registered, remoteName,
                   currentRapp, applicationNamespace, capActive, launched,
                   flipped, req, resp, faults>>
    /\ UNCHANGED calls

\* _init_services, line 142: if self._services
InitServicesTest ==
    /\ pc[Main] = "init_services"
    /\ IF \E o \in services : IsService(o[1])
       THEN /\ Goto(Main, "init_shutdown")
            /\ frame' = [frame EXCEPT ![Main].i = 1]
       ELSE /\ Goto(Main, "init_clear_names")
            /\ UNCHANGED frame
    /\ UNCHANGED <<params, gateway, remoteName, currentRapp, applicationNamespace,
                   capActive, launched, flipped, req, resp, faults>>
    /\ UNCHANGED calls

\* _init_services, lines 143-146: one service.shutdown() or
\* publisher.unregister()
InitServicesShutdown ==
    /\ pc[Main] = "init_shutdown"
    /\ LET k == frame[Main].i
       IN /\ registered' = registered \ {ObjectOf(Held[k])}
          /\ IF k = Len(Held)
             THEN /\ Goto(Main, "init_clear_services")
                  /\ frame' = [frame EXCEPT ![Main].i = 0]
             ELSE /\ frame' = [frame EXCEPT ![Main].i = k + 1]
                  /\ UNCHANGED pc
    /\ UNCHANGED <<params, gatewayName, serviceNames, initialisingServices, services,
                   remoteName, currentRapp, applicationNamespace, capActive, launched,
                   flipped, req, resp, faults>>
    /\ UNCHANGED calls

\* _init_services, line 147: self._services = {}
InitServicesClearServices ==
    /\ pc[Main] = "init_clear_services"
    /\ services' = {o \in services : ~IsService(o[1])}
    /\ Goto(Main, "init_clear_publishers")
    /\ UNCHANGED <<params, gatewayName, serviceNames, initialisingServices, registered,
                   remoteName, currentRapp, applicationNamespace, capActive, launched,
                   flipped, frame, req, resp, faults>>
    /\ UNCHANGED calls

\* _init_services, line 148: self._publishers = {}
InitServicesClearPublishers ==
    /\ pc[Main] = "init_clear_publishers"
    /\ services' = {}
    /\ Goto(Main, "init_clear_names")
    /\ UNCHANGED <<params, gatewayName, serviceNames, initialisingServices, registered,
                   remoteName, currentRapp, applicationNamespace, capActive, launched,
                   flipped, frame, req, resp, faults>>
    /\ UNCHANGED calls

\* _init_services, lines 149-150: self._service_names = {}
InitServicesClearNames ==
    /\ pc[Main] = "init_clear_names"
    /\ serviceNames' = NoNames
    /\ Goto(Main, "init_names")
    /\ frame' = [frame EXCEPT ![Main].i = 1]
    /\ UNCHANGED <<params, gatewayName, initialisingServices, services, registered,
                   remoteName, currentRapp, applicationNamespace, capActive, launched,
                   flipped, req, resp, faults>>
    /\ UNCHANGED calls

\* _init_services, lines 151-153: the loop over the default names, where it
\* writes self._service_names['start_app'] and then ['stop_app']
InitServicesNames ==
    /\ pc[Main] = "init_names"
    /\ LET base_name == IF gatewayName # None THEN gatewayName ELSE RobotName
       IN IF frame[Main].i = 1
          THEN /\ serviceNames' = [serviceNames EXCEPT
                                      !.start_app = ServiceNamesFor(base_name).start_app]
               /\ frame' = [frame EXCEPT ![Main].i = 2]
               /\ UNCHANGED pc
          ELSE /\ serviceNames' = [serviceNames EXCEPT
                                      !.stop_app = ServiceNamesFor(base_name).stop_app]
               /\ frame' = [frame EXCEPT ![Main].i = 0]
               /\ Goto(Main, "init_namespace")
    /\ UNCHANGED <<params, gatewayName, initialisingServices, services, registered,
                   remoteName, currentRapp, applicationNamespace, capActive, launched,
                   flipped, req, resp, faults>>
    /\ UNCHANGED calls

\* _init_services, line 156: the application namespace
InitServicesNamespace ==
    /\ pc[Main] = "init_namespace"
    /\ LET base_name == IF gatewayName # None THEN gatewayName ELSE RobotName
       IN applicationNamespace' = base_name \o "/" \o default_application_namespace
    /\ Goto(Main, "init_create")
    /\ frame' = [frame EXCEPT ![Main].i = 1]
    /\ UNCHANGED <<params, gateway, remoteName, currentRapp, capActive, launched,
                   flipped, req, resp, faults>>
    /\ UNCHANGED calls

\* _init_services, lines 172-175: the except branch. The call returns False:
\* to __init__, which goes on to the _publish_app_list of line 70, or to
\* spin, which polls the gateway again.
InitServicesExcept ==
    /\ faults' = faults + 1
    /\ initialisingServices' = FALSE
    /\ IF frame[Main].n = 0
       THEN /\ Goto(Main, "pub_test")
            /\ frame' = [frame EXCEPT ![Main].i = 0, ![Main].ok = TRUE]
       ELSE /\ Goto(Main, "spin")
            /\ frame' = [frame EXCEPT ![Main].i = 0]

\* _init_services, lines 159-169: one call of rospy.Service or
\* rospy.Publisher. It registers the object, or raises.
InitServicesCreate(raised) ==
    /\ pc[Main] = "init_create"
    /\ raised => MayFail("ros")
    /\ IF raised
       THEN /\ InitServicesExcept
            /\ UNCHANGED registered
       ELSE /\ registered' = registered \cup {<<ServiceOrder[frame[Main].i], frame[Main].n>>}
            /\ Goto(Main, "init_store")
            /\ UNCHANGED <<initialisingServices, frame, faults>>
    /\ UNCHANGED <<params, gatewayName, serviceNames, services, remoteName, currentRapp,
                   applicationNamespace, capActive, launched, flipped, req, resp>>
    /\ UNCHANGED calls

\* _init_services, lines 159-169: the object is stored in self._services or
\* self._publishers
InitServicesStore ==
    /\ pc[Main] = "init_store"
    /\ LET k == frame[Main].i
       IN /\ services' = services \cup {<<ServiceOrder[k], frame[Main].n>>}
          /\ IF k = Len(ServiceOrder)
             THEN /\ Goto(Main, "init_update")
                  /\ frame' = [frame EXCEPT ![Main].i = 0]
             ELSE /\ Goto(Main, "init_create")
                  /\ frame' = [frame EXCEPT ![Main].i = k + 1]
    /\ UNCHANGED <<params, gatewayName, serviceNames, initialisingServices, registered,
                   remoteName, currentRapp, applicationNamespace, capActive, launched,
                   flipped, req, resp, faults>>
    /\ UNCHANGED calls

\* _init_services, line 171: the force_update publish, then the call of
\* _publish_app_list (line 176)
InitServicesUpdate(raised) ==
    /\ pc[Main] = "init_update"
    /\ raised => MayFail("ros")
    /\ IF raised
       THEN InitServicesExcept
       ELSE /\ Goto(Main, "pub_test")
            /\ UNCHANGED <<initialisingServices, frame, faults>>
    /\ UNCHANGED <<params, gatewayName, serviceNames, services, registered, remoteName,
                   currentRapp, applicationNamespace, capActive, launched, flipped,
                   req, resp>>
    /\ UNCHANGED calls

(***************************************************************************)
(* _process_stop_app: how it is left                                       *)
(***************************************************************************)
\* name: the rapp the call stopped (rapp_name), None when it found none
StopAppResponse(stopped, message, rapp_name) ==
    [op |-> "stop", ok |-> stopped, msg |-> message, name |-> rapp_name, ns |-> ""]

StopMessage(stopped, name) ==
    IF stopped THEN "Success" ELSE "Error while stopping rapp '" \o name \o "'."

\* return resp: back in the service callback, in _accept_invitation (line
\* 282) or in _monitor_rapp (line 515, break)
ReturnFromStop(t, response) ==
    IF t \in Handlers
    THEN IF req[t].op = "invite"
         THEN /\ pc' = [pc EXCEPT ![t] = "inv_clear"]
              /\ frame' = [frame EXCEPT ![t] = NoFrame]
              /\ UNCHANGED <<req, resp>>
         ELSE Return(t, response)
    ELSE /\ pc' = [pc EXCEPT ![t] = "dead"]
         /\ frame' = [frame EXCEPT ![t] = NoFrame]
         /\ UNCHANGED <<req, resp>>

\* An exception leaves _process_stop_app: the service call fails (the
\* invitation's too: _accept_invitation does not catch it), the monitor
\* thread ends.
RaiseFromStop(t, exception) ==
    IF t \in Handlers
    THEN Raise(t, exception)
    ELSE /\ pc' = [pc EXCEPT ![t] = "dead"]
         /\ frame' = [frame EXCEPT ![t] = NoFrame]
         /\ UNCHANGED <<req, resp>>

\* _process_stop_app from line 472 on: the capability loop, when the rapp
\* has required capabilities, or the return of line 498
StopTeardown(t) ==
    LET name == frame[t].name
    IN IF HasRequiredCapabilities(name) /\ Len(RequiredCapabilities(name)) > 0
       THEN /\ pc' = [pc EXCEPT ![t] = "stop_caps"]
            /\ frame' = [frame EXCEPT ![t].i = 1]
            /\ UNCHANGED <<req, resp>>
       ELSE ReturnFromStop(t, StopAppResponse(TRUE, StopMessage(TRUE, name), name))

(***************************************************************************)
(* _publish_app_list, called by _init_services (line 176),                 *)
(* _process_start_app (line 436) and _process_stop_app (line 471)          *)
(***************************************************************************)
\* Is the thread in the _publish_app_list that _process_start_app calls?
PublishesStart(t) == t \in Handlers /\ req[t].op = "start"

\* _publish_app_list returns to its caller. _init_services clears the flag
\* and returns True (lines 177-178): __init__ goes on to the
\* _publish_app_list of line 70 (ok in the main thread's frame says that it
\* is in this one) and spin leaves its loop (line 585); __init__ returns and
\* spin is called; _process_start_app goes on to line 437, _process_stop_app
\* to line 472.
AfterPublish(t) ==
    IF t = Main
    THEN /\ UNCHANGED <<req, resp>>
         /\ IF frame[Main].ok
            THEN /\ UNCHANGED initialisingServices
                 /\ Goto(Main, "spin")
                 /\ frame' = [frame EXCEPT ![Main].ok = FALSE]
            ELSE /\ initialisingServices' = FALSE
                 /\ IF frame[Main].n = 0
                    THEN /\ Goto(Main, "pub_test")
                         /\ frame' = [frame EXCEPT ![Main].ok = TRUE]
                    ELSE /\ Goto(Main, "done")
                         /\ UNCHANGED frame
    ELSE /\ UNCHANGED initialisingServices
         /\ IF PublishesStart(t)
            THEN /\ Goto(t, "start_monitor")
                 /\ UNCHANGED <<frame, req, resp>>
            ELSE StopTeardown(t)

\* The AttributeError of line 345 leaves _publish_app_list and its caller:
\* _init_services with the flag still set, and with it __init__ or spin;
\* __init__ at line 70; the service callback, or _process_stop_app.
RaiseFromPublish(t) ==
    /\ UNCHANGED initialisingServices
    /\ IF t = Main
       THEN /\ Goto(Main, "crashed")
            /\ UNCHANGED <<frame, req, resp>>
       ELSE IF PublishesStart(t)
       THEN Raise(t, "AttributeError")
       ELSE RaiseFromStop(t, "AttributeError")

\* _publish_app_list, line 344: the test of the slot. With the slot empty
\* the runnable list is published (line 347; a KeyError is passed over).
PublishTest(t) ==
    /\ pc[t] = "pub_test"
    /\ IF currentRapp # None
       THEN /\ Goto(t, "pub_key")
            /\ UNCHANGED <<initialisingServices, frame, req, resp>>
       ELSE AfterPublish(t)
    /\ UNCHANGED <<params, gatewayName, serviceNames, services, registered, remoteName,
                   currentRapp, applicationNamespace, capActive, launched, flipped,
                   faults>>
    /\ UNCHANGED calls

\* _publish_app_list, line 345: self._publishers['runnable_apps_list'] is
\* evaluated first; its KeyError is caught at line 348.
PublishKey(t) ==
    /\ pc[t] = "pub_key"
    /\ IF \A o \in services : o[1] # "runnable_apps_list"
       THEN AfterPublish(t)
       ELSE /\ Goto(t, "pub_rapp")
            /\ UNCHANGED <<initialisingServices, frame, req, resp>>
    /\ UNCHANGED <<params, gatewayName, serviceNames, services, registered, remoteName,
                   currentRapp, applicationNamespace, capActive, launched, flipped,
                   faults>>
    /\ UNCHANGED calls

\* _publish_app_list, line 345: self._current_rapp.to_msg(), which raises
\* AttributeError when the slot has been cleared since the test of line 344
PublishRapp(t) ==
    /\ pc[t] = "pub_rapp"
    /\ IF currentRapp = None
       THEN RaiseFromPublish(t)
       ELSE AfterPublish(t)
    /\ UNCHANGED <<params, gatewayName, serviceNames, services, registered, remoteName,
                   currentRapp, applicationNamespace, capActive, launched, flipped,
                   faults>>
    /\ UNCHANGED calls

(***************************************************************************)
(* _flip_connections                                                       *)
(***************************************************************************)
\* One call of _flip_connections, lines 548-576, and what the gateway then
\* holds: nothing is sent for an empty list; a batch the gateway accepts
\* adds or removes its rules; a rejected batch is only logged and a
\* ServiceException is caught (line 570): neither changes the rules.
FlipConnections(rules, remote_name, connection_names, connection_type, cancel_flag, outcome) ==
    IF connection_names = {} THEN rules
    ELSE LET batch == {<<remote_name, connection_type, n>> : n \in connection_names}
         IN IF outcome = "ok"
            THEN IF cancel_flag THEN rules \ batch ELSE rules \cup batch
            ELSE rules

\* Lines 429-433 and 463-467: the next of the five calls, from the i-th on,
\* whose list is not empty; 0 when there is none. A call with an empty list
\* returns at line 562 without using remote_name.
NextBatch(conns, i) ==
    LET rest == {j \in i..Len(ConnectionTypes) : conns[ConnectionTypes[j]] # {}}
    IN IF rest = {} THEN 0 ELSE CHOOSE j \in rest : \A l \in rest : j <= l

(***************************************************************************)
(* _process_invite / _accept_invitation                                    *)
(***************************************************************************)
\* _process_invite with the blacklist left out of the second test
PolicyAdmits_IgnoringBlacklist(remote_target_name) ==
    IF remote_target_name \in whitelist
    THEN TRUE
    ELSE IF Cardinality(whitelist) = 0
    THEN TRUE
    ELSE FALSE

\* _process_invite with the blacklist tested before the whitelist
PolicyAdmits_BlacklistFirst(remote_target_name) ==
    IF remote_target_name \in blacklist
    THEN FALSE
    ELSE IF remote_target_name \in whitelist \/ Cardinality(whitelist) = 0
    THEN TRUE
    ELSE FALSE

\* _process_invite, lines 243-248: does the policy hand the request on to
\* _accept_invitation?
PolicyAdmits(remote_target_name) ==
    IF remote_target_name \in whitelist THEN TRUE
    ELSE IF Cardinality(whitelist) = 0 /\ remote_target_name \notin blacklist THEN TRUE
    ELSE FALSE

\* InviteResponse(result); name, msg and ns keep the request's
\* remote_target_name, cancel and application_namespace beside it
InviteResponse(result, remote, cancel, ns) ==
    [op |-> "invite", ok |-> result, msg |-> IF cancel THEN "cancel" ELSE "invite",
     name |-> remote, ns |-> ns]

\* return from _accept_invitation, and with its result from _process_invite
InviteReturn(h, result) ==
    Return(h, InviteResponse(result, req[h].name, req[h].cancel, req[h].ns))

\* _process_invite, lines 241-248: the invite service is called. The policy
\* reads the two lists only; a request it admits goes into
\* _accept_invitation.
ProcessInvite(h, remote, cancel, ns) ==
    /\ Idle(h)
    /\ Serving("invite")
    /\ remote \in peers
    /\ ns \in overrides
    /\ IF PolicyAdmits(remote)
       THEN /\ Goto(h, "inv_check")
            /\ req' = [req EXCEPT ![h] = [op |-> "invite", name |-> remote, slot0 |-> None,
                                          ns |-> ns, cancel |-> cancel]]
            /\ UNCHANGED <<frame, resp>>
       ELSE Return(h, InviteResponse(FALSE, remote, cancel, ns))
    /\ UNCHANGED <<params, gateway, remoteName, currentRapp, applicationNamespace,
                   capActive, launched, flipped, faults>>
    /\ calls' = calls + 1

\* _accept_invitation without the first abort check (lines 252-254)
AcceptInvitation_NoCancelCheck(h) ==
    IF ~req[h].cancel /\ req[h].name = remoteName
    THEN InviteReturn(h, TRUE)
    ELSE /\ Goto(h, IF req[h].ns = "" THEN "inv_gateway" ELSE "inv_namespace")
         /\ frame' = [frame EXCEPT ![h].ns = req[h].ns]
         /\ UNCHANGED <<req, resp>>

\* _accept_invitation without the second abort check (lines 255-257)
AcceptInvitation_NoRepeatCheck(h) ==
    IF req[h].cancel /\ req[h].name # remoteName
    THEN InviteReturn(h, FALSE)
    ELSE /\ Goto(h, IF req[h].ns = "" THEN "inv_gateway" ELSE "inv_namespace")
         /\ frame' = [frame EXCEPT ![h].ns = req[h].ns]
         /\ UNCHANGED <<req, resp>>

\* _accept_invitation, lines 252-259: the abort checks, which read
\* self._remote_name once (line 252 for a cancel, line 255 else), and the
\* test of the request's namespace
AcceptInvitation(h) ==
    IF req[h].cancel /\ req[h].name # remoteName
    THEN InviteReturn(h, FALSE)
    ELSE IF ~req[h].cancel /\ req[h].name = remoteName
    THEN InviteReturn(h, TRUE)
    ELSE /\ Goto(h, IF req[h].ns = "" THEN "inv_gateway" ELSE "inv_namespace")
         /\ frame' = [frame EXCEPT ![h].ns = req[h].ns]
         /\ UNCHANGED <<req, resp>>

\* _accept_invitation, lines 250-259
InviteCheck(h) ==
    /\ h \in Handlers
    /\ pc[h] = "inv_check"
    /\ AcceptInvitation(h)
    /\ UNCHANGED <<params, gateway, remoteName, currentRapp, applicationNamespace,
                   capActive, launched, flipped, faults>>
    /\ UNCHANGED calls

\* _accept_invitation, lines 260-263: self._gateway_name decides the default
\* namespace
ResolveNamespace ==
    IF gatewayName # None
    THEN gatewayName \o "/" \o default_application_namespace
    ELSE default_application_namespace

\* _accept_invitation, line 260: the read of self._gateway_name
InviteGateway(h) ==
    /\ h \in Handlers
    /\ pc[h] = "inv_gateway"
    /\ frame' = [frame EXCEPT ![h].ns = ResolveNamespace]
    /\ Goto(h, "inv_namespace")
    /\ UNCHANGED <<params, gateway, remoteName, currentRapp, applicationNamespace,
                   capActive, launched, flipped, req, resp, faults>>
    /\ UNCHANGED calls

\* _accept_invitation, lines 261, 263, 265: the write of
\* self._application_namespace
InviteNamespace(h) ==
    /\ h \in Handlers
    /\ pc[h] = "inv_namespace"
    /\ applicationNamespace' = frame[h].ns
    /\ frame' = [frame EXCEPT ![h].ns = ""]
    /\ Goto(h, "inv_names")
    /\ UNCHANGED <<params, gateway, remoteName, currentRapp, capActive, launched,
                   flipped, req, resp, faults>>
    /\ UNCHANGED calls

\* _accept_invitation, line 269: self._service_names['start_app'], then
\* self._service_names['stop_app']. The dictionary is empty while
\* _init_services is between its lines 149 and 153: the KeyError is caught
\* at line 273 and ends the invitation with False.
InviteNames(h) ==
    /\ h \in Handlers
    /\ pc[h] = "inv_names"
    /\ LET name == IF frame[h].names = {} THEN serviceNames.start_app
                   ELSE serviceNames.stop_app
       IN IF name = None
          THEN InviteReturn(h, FALSE)
          ELSE /\ frame' = [frame EXCEPT ![h].names = @ \cup {name},
                                         ![h].i = @ + 1]
               /\ Goto(h, IF frame[h].i = 1 THEN "inv_flip" ELSE "inv_names")
               /\ UNCHANGED <<req, resp>>
    /\ UNCHANGED <<params, gateway, remoteName, currentRapp, applicationNamespace,
                   capActive, launched, flipped, faults>>
    /\ UNCHANGED calls

\* _accept_invitation, lines 268-270, and _flip_connections, line 569: the
\* gateway is asked to flip start_app and stop_app to the remote system, or
\* to unflip them. _flip_connections returns whatever the gateway does.
InviteFlip(h, outcome) ==
    /\ h \in Handlers
    /\ pc[h] = "inv_flip"
    /\ outcome # "ok" => MayFail("gateway")
    /\ faults' = IF outcome = "ok" THEN faults ELSE faults + 1
    /\ flipped' = FlipConnections(flipped, req[h].name, frame[h].names,
                                  "service", req[h].cancel, outcome)
    /\ Goto(h, IF req[h].cancel THEN "inv_final" ELSE "inv_adopt")
    /\ frame' = [frame EXCEPT ![h] = NoFrame]
    /\ UNCHANGED <<req, resp>>
    /\ UNCHANGED <<params, gateway, remoteName, currentRapp, applicationNamespace,
                   capActive, launched>>
    /\ UNCHANGED calls

\* _accept_invitation, lines 277-278: is the remote system that cancels
\* still the controller?
InviteFinal(h) ==
    /\ h \in Handlers
    /\ pc[h] = "inv_final"
    /\ IF req[h].name = remoteName
       THEN /\ Goto(h, "inv_rapp")
            /\ UNCHANGED <<frame, req, resp>>
       ELSE InviteReturn(h, TRUE)
    /\ UNCHANGED <<params, gateway, remoteName, currentRapp, applicationNamespace,
                   capActive, launched, flipped, faults>>
    /\ UNCHANGED calls

\* _accept_invitation, lines 280-281: with a rapp in the slot
\* _process_stop_app is called
InviteRapp(h) ==
    /\ h \in Handlers
    /\ pc[h] = "inv_rapp"
    /\ Goto(h, IF currentRapp # None THEN "stop_check" ELSE "inv_clear")
    /\ UNCHANGED <<params, gateway, remoteName, currentRapp, applicationNamespace,
                   capActive, launched, flipped, frame, req, resp, faults>>
    /\ UNCHANGED calls

\* _accept_invitation, lines 282 and 286: the controller is cleared
InviteClear(h) ==
    /\ h \in Handlers
    /\ pc[h] = "inv_clear"
    /\ remoteName' = None
    /\ InviteReturn(h, TRUE)
    /\ UNCHANGED <<params, gateway, currentRapp, applicationNamespace, capActive,
                   launched, flipped, faults>>
    /\ UNCHANGED calls

\* _accept_invitation, lines 285-286: the remote system becomes the
\* controller
InviteAdopt(h) ==
    /\ h \in Handlers
    /\ pc[h] = "inv_adopt"
    /\ remoteName' = req[h].name
    /\ InviteReturn(h, TRUE)
    /\ UNCHANGED <<params, gateway, currentRapp, applicationNamespace, capActive,
                   launched, flipped, faults>>
    /\ UNCHANGED calls

(***************************************************************************)
(* _process_start_app                                                      *)
(***************************************************************************)
StartAppResponse(started, message, name, ns) ==
    [op |-> "start", ok |-> started, msg |-> message, name |-> name, ns |-> ns]

\* thread.start_new_thread(self._monitor_rapp, ()), line 437: the new thread
\* takes the first free thread slot.
FreeMonitor == CHOOSE m \in Monitors : pc[m] = "dead" /\ \A n \in Monitors : pc[n] = "dead" => m <= n

\* The start_app service is called: _process_start_app, lines 351-352
StartAppRequest(h, name) ==
    /\ Idle(h)
    /\ Serving("start_app")
    /\ name \in asked
    /\ req' = [req EXCEPT ![h] = [op |-> "start", name |-> name, slot0 |-> currentRapp,
                                  ns |-> "", cancel |-> FALSE]]
    /\ Goto(h, "start_namespace")
    /\ UNCHANGED <<frame, resp>>
    /\ UNCHANGED <<params, gateway, remoteName, currentRapp, applicationNamespace,
                   capActive, launched, flipped, faults>>
    /\ calls' = calls + 1

\* _process_start_app, line 353: resp.app_namespace
StartNamespace(h) ==
    /\ h \in Handlers
    /\ pc[h] = "start_namespace"
    /\ req' = [req EXCEPT ![h].ns = applicationNamespace]
    /\ Goto(h, "start_check")
    /\ UNCHANGED <<frame, resp>>
    /\ UNCHANGED <<params, gateway, remoteName, currentRapp, applicationNamespace,
                   capActive, launched, flipped, faults>>
    /\ UNCHANGED calls

\* _process_start_app, lines 357-383: the test of the slot, which with a
\* rapp in it goes on to the message of line 359, and the lookups of the
\* name in the installed and the runnable rapps. A request that passes them
\* goes on to the capabilities (line 385) or to rapp.start.
StartChecks(h) ==
    LET name == req[h].name
    IN IF currentRapp # None
       THEN /\ Goto(h, "start_running")
            /\ UNCHANGED <<frame, req, resp>>
       ELSE IF name \notin apps.pre_installed
       THEN Return(h, StartAppResponse(FALSE, "The requested app '" \o name \o "' is not installed.",
                                       name, req[h].ns))
       ELSE IF name \notin apps.runnable
       THEN Return(h, StartAppResponse(FALSE, "The requested app '" \o name
                                              \o "' is installed, but cannot be started"
                                              \o ", because its required capabilities are not available.",
                                       name, req[h].ns))
       ELSE /\ frame' = [frame EXCEPT ![h] = [NoFrame EXCEPT !.name = name, !.i = 1]]
            /\ Goto(h, IF HasRequiredCapabilities(name) /\ Len(RequiredCapabilities(name)) > 0
                       THEN "start_caps" ELSE "start_rapp_namespace")
            /\ UNCHANGED <<req, resp>>

\* _process_start_app, lines 356-383
StartCheck(h) ==
    /\ h \in Handlers
    /\ pc[h] = "start_check"
    /\ StartChecks(h)
    /\ UNCHANGED <<params, gateway, remoteName, currentRapp, applicationNamespace,
                   capActive, launched, flipped, faults>>
    /\ UNCHANGED calls

\* _process_start_app, lines 358-361: the message reads the slot again; the
\* AttributeError of a slot cleared since line 357 leaves the callback.
StartRunning(h) ==
    /\ h \in Handlers
    /\ pc[h] = "start_running"
    /\ IF currentRapp = None
       THEN Raise(h, "AttributeError")
       ELSE Return(h, StartAppResponse(FALSE, "an app is already running [" \o currentRapp \o "]",
                                       req[h].name, req[h].ns))
    /\ UNCHANGED <<params, gateway, remoteName, currentRapp, applicationNamespace,
                   capActive, launched, flipped, faults>>
    /\ UNCHANGED calls

\* The message of a failed start_capability, lines 388-409
StartCapabilityMessage(cap, outcome) ==
    CASE outcome = "ROSException" ->
            "App Manager : Service for starting capabilities is not available. Will not start app. Error:"
      [] outcome = "IOError" ->
            "App Manager : Error occurred while processing 'start_capability' service. Will not start app. Error: "
      [] OTHER ->
            "App Manager : Starting capability '" \o cap \o " was not successful. Will not start app."

\* _process_start_app going on with the loop of line 385 after a capability
\* that did not start
StartCapability_NoAbort(h, outcome) ==
    /\ h \in Handlers
    /\ pc[h] = "start_caps"
    /\ outcome # "ok" => MayFail("capabilities")
    /\ faults' = IF outcome = "ok" THEN faults ELSE faults + 1
    /\ LET caps == RequiredCapabilities(frame[h].name)
           i == frame[h].i
       IN /\ capActive' = IF outcome = "ok" THEN capActive \cup {caps[i]} ELSE capActive
          /\ frame' = [frame EXCEPT ![h].i = i + 1]
          /\ Goto(h, IF i = Len(caps) THEN "start_rapp_namespace" ELSE "start_caps")
          /\ UNCHANGED <<req, resp>>
    /\ UNCHANGED <<params, gateway, remoteName, currentRapp, applicationNamespace,
                   launched, flipped>>
    /\ UNCHANGED calls

\* _process_start_app, lines 385-410: one pass of the loop over the required
\* capabilities
StartCapability(h, outcome) ==
    /\ h \in Handlers
    /\ pc[h] = "start_caps"
    /\ outcome # "ok" => MayFail("capabilities")
    /\ faults' = IF outcome = "ok" THEN faults ELSE faults + 1
    /\ LET caps == RequiredCapabilities(frame[h].name)
           i == frame[h].i
           cap == caps[i]
       IN IF outcome = "ok"
          THEN /\ capActive' = capActive \cup {cap}
               /\ frame' = [frame EXCEPT ![h].i = i + 1]
               /\ Goto(h, IF i = Len(caps) THEN "start_rapp_namespace" ELSE "start_caps")
               /\ UNCHANGED <<req, resp>>
          ELSE /\ Return(h, StartAppResponse(FALSE, StartCapabilityMessage(cap, outcome),
                                             req[h].name, req[h].ns))
               /\ UNCHANGED capActive
    /\ UNCHANGED <<params, gateway, remoteName, currentRapp, applicationNamespace,
                   launched, flipped>>
    /\ UNCHANGED calls

\* _process_start_app, lines 416 and 422: self._application_namespace is
\* read for the call of rapp.start
StartRappNamespace(h) ==
    /\ h \in Handlers
    /\ pc[h] = "start_rapp_namespace"
    /\ frame' = [frame EXCEPT ![h].ns = applicationNamespace, ![h].i = 0]
    /\ Goto(h, "start_rapp")
    /\ UNCHANGED <<req, resp>>
    /\ UNCHANGED <<params, gateway, remoteName, currentRapp, applicationNamespace,
                   capActive, launched, flipped, faults>>
    /\ UNCHANGED calls

\* _process_start_app, lines 412-427: rapp.start and what it returns
StartRapp(h, started) ==
    /\ h \in Handlers
    /\ pc[h] = "start_rapp"
    /\ ~started => MayFail("rapp")
    /\ LET name == frame[h].name
       IN /\ frame' = [frame EXCEPT ![h].ok = started,
                                    ![h].conns = IF started THEN Connections(name)
                                                 ELSE NoConnections]
          /\ launched' = IF started THEN launched \cup {name} ELSE launched
          /\ faults' = IF started THEN faults ELSE faults + 1
    /\ Goto(h, "start_flip")
    /\ UNCHANGED <<params, gateway, remoteName, currentRapp, applicationNamespace,
                   capActive, flipped, req, resp>>
    /\ UNCHANGED calls

\* _process_start_app without the test of resp.started at line 434
StartResult_IgnoringResult(h) ==
    /\ Goto(h, "start_occupy")
    /\ frame' = [frame EXCEPT ![h].remote = None, ![h].i = 0]
    /\ UNCHANGED <<req, resp>>

\* _process_start_app, lines 434 and 438: after the flips, a rapp that
\* started goes into the slot, one that did not ends the request with
\* started = False
StartResult(h) ==
    IF frame[h].ok
    THEN /\ Goto(h, "start_occupy")
         /\ frame' = [frame EXCEPT ![h].remote = None, ![h].i = 0]
         /\ UNCHANGED <<req, resp>>
    ELSE Return(h, StartAppResponse(FALSE, "Error while launching " \o frame[h].name,
                                    req[h].name, req[h].ns))

\* _process_start_app, line 428: if self._remote_name. Each of the calls of
\* lines 429-433 reads the attribute again for its argument.
StartFlip(h) ==
    /\ h \in Handlers
    /\ pc[h] = "start_flip"
    /\ IF remoteName # None /\ NextBatch(frame[h].conns, 1) # 0
       THEN /\ Goto(h, "start_flip_arg")
            /\ frame' = [frame EXCEPT ![h].i = NextBatch(frame[h].conns, 1)]
            /\ UNCHANGED <<req, resp>>
       ELSE StartResult(h)
    /\ UNCHANGED <<params, gateway, remoteName, currentRapp, applicationNamespace,
                   capActive, launched, flipped, faults>>
    /\ UNCHANGED calls

\* _process_start_app, lines 429-433: self._remote_name is read for the
\* call of _flip_connections
StartFlipArg(h) ==
    /\ h \in Handlers
    /\ pc[h] = "start_flip_arg"
    /\ frame' = [frame EXCEPT ![h].remote = remoteName]
    /\ Goto(h, "start_flip_call")
    /\ UNCHANGED <<req, resp>>
    /\ UNCHANGED <<params, gateway, remoteName, currentRapp, applicationNamespace,
                   capActive, launched, flipped, faults>>
    /\ UNCHANGED calls

\* _process_start_app taking a flip that failed for a start that failed
StartFlipCall_FlipDecides(h, outcome) ==
    /\ h \in Handlers
    /\ pc[h] = "start_flip_call"
    /\ outcome # "ok" => MayFail("gateway")
    /\ faults' = IF outcome = "ok" THEN faults ELSE faults + 1
    /\ LET i == frame[h].i
           kind == ConnectionTypes[i]
       IN /\ flipped' = FlipConnections(flipped, frame[h].remote, frame[h].conns[kind],
                                        kind, FALSE, outcome)
          /\ IF outcome # "ok"
             THEN Return(h, StartAppResponse(FALSE, "Error while launching " \o frame[h].name,
                                             req[h].name, req[h].ns))
             ELSE IF NextBatch(frame[h].conns, i + 1) # 0
             THEN /\ Goto(h, "start_flip_arg")
                  /\ frame' = [frame EXCEPT ![h].i = NextBatch(frame[h].conns, i + 1),
                                            ![h].remote = None]
                  /\ UNCHANGED <<req, resp>>
             ELSE StartResult(h)
    /\ UNCHANGED <<params, gateway, remoteName, currentRapp, applicationNamespace,
                   capActive, launched>>
    /\ UNCHANGED calls

\* _process_start_app, lines 429-433, and _flip_connections, line 569: the
\* gateway is asked to flip one list of the rapp's connections.
StartFlipCall(h, outcome) ==
    /\ h \in Handlers
    /\ pc[h] = "start_flip_call"
    /\ outcome # "ok" => MayFail("gateway")
    /\ faults' = IF outcome = "ok" THEN faults ELSE faults + 1
    /\ LET i == frame[h].i
           kind == ConnectionTypes[i]
       IN /\ flipped' = FlipConnections(flipped, frame[h].remote, frame[h].conns[kind],
                                        kind, FALSE, outcome)
          /\ IF NextBatch(frame[h].conns, i + 1) # 0
             THEN /\ Goto(h, "start_flip_arg")
                  /\ frame' = [frame EXCEPT ![h].i = NextBatch(frame[h].conns, i + 1),
                                            ![h].remote = None]
                  /\ UNCHANGED <<req, resp>>
             ELSE StartResult(h)
    /\ UNCHANGED <<params, gateway, remoteName, currentRapp, applicationNamespace,
                   capActive, launched>>
    /\ UNCHANGED calls

\* _process_start_app, line 435: the rapp goes into the slot
StartOccupy(h) ==
    /\ h \in Handlers
    /\ pc[h] = "start_occupy"
    /\ currentRapp' = frame[h].name
    /\ Goto(h, "pub_test")
    /\ UNCHANGED <<params, gateway, remoteName, applicationNamespace, capActive,
                   launched, flipped, frame, req, resp, faults>>
    /\ UNCHANGED calls

\* _process_start_app, lines 437-438: the monitor thread is started and the
\* response returned
StartMonitor(h) ==
    /\ h \in Handlers
    /\ pc[h] = "start_monitor"
    /\ pc' = [pc EXCEPT ![h] = "reply", ![FreeMonitor] = "m_loop"]
    /\ resp' = [resp EXCEPT ![h] = StartAppResponse(TRUE, "Success", req[h].name, req[h].ns)]
    /\ frame' = [frame EXCEPT ![h] = NoFrame]
    /\ req' = [req EXCEPT ![h] = NoReq]
    /\ UNCHANGED <<params, gateway, remoteName, currentRapp, applicationNamespace,
                   capActive, launched, flipped, faults>>
    /\ UNCHANGED calls

(***************************************************************************)
(* _process_stop_app, run by the stop_app callback, by _accept_invitation  *)
(* and by the monitor thread                                               *)
(***************************************************************************)
Workers == Handlers \cup Monitors

\* The stop_app service is called: _process_stop_app(req), line 448
StopAppRequest(h) ==
    /\ Idle(h)
    /\ Serving("stop_app")
    /\ req' = [req EXCEPT ![h] = [op |-> "stop", name |-> None, slot0 |-> currentRapp,
                                  ns |-> "", cancel |-> FALSE]]
    /\ Goto(h, "stop_check")
    /\ UNCHANGED <<frame, resp>>
    /\ UNCHANGED <<params, gateway, remoteName, currentRapp, applicationNamespace,
                   capActive, launched, flipped, faults>>
    /\ calls' = calls + 1

\* _process_stop_app without the test of the slot at line 449
StopSlotCheck_NoSlotCheck(t) ==
    /\ Goto(t, "stop_name")
    /\ UNCHANGED <<frame, req, resp>>

\* _process_stop_app, lines 449-454: an empty slot ends the call with
\* stopped = False
StopSlotCheck(t) ==
    IF currentRapp = None
    THEN ReturnFromStop(t, StopAppResponse(FALSE, "tried to stop a rapp, but no rapp found running",
                                           None))
    ELSE /\ Goto(t, "stop_name")
         /\ UNCHANGED <<frame, req, resp>>

\* _process_stop_app, lines 448-454
StopCheck(t) ==
    /\ t \in Workers
    /\ pc[t] = "stop_check"
    /\ StopSlotCheck(t)
    /\ UNCHANGED <<params, gateway, remoteName, currentRapp, applicationNamespace,
                   capActive, launched, flipped, faults>>
    /\ UNCHANGED calls

\* _process_stop_app, line 456: rapp_name = self._current_rapp.data['name'],
\* an AttributeError when the slot has been cleared since line 449
StopName(t) ==
    /\ t \in Workers
    /\ pc[t] = "stop_name"
    /\ IF currentRapp = None
       THEN RaiseFromStop(t, "AttributeError")
       ELSE /\ frame' = [frame EXCEPT ![t] = [NoFrame EXCEPT !.name = currentRapp]]
            /\ Goto(t, "stop_rapp_read")
            /\ UNCHANGED <<req, resp>>
    /\ UNCHANGED <<params, gateway, remoteName, currentRapp, applicationNamespace,
                   capActive, launched, flipped, faults>>
    /\ UNCHANGED calls

\* _process_stop_app, line 460: self._current_rapp is read for the call of
\* stop, an AttributeError when the slot has been cleared since line 456
StopRappRead(t) ==
    /\ t \in Workers
    /\ pc[t] = "stop_rapp_read"
    /\ IF currentRapp = None
       THEN RaiseFromStop(t, "AttributeError")
       ELSE /\ frame' = [frame EXCEPT ![t].obj = currentRapp]
            /\ Goto(t, "stop_rapp")
            /\ UNCHANGED <<req, resp>>
    /\ UNCHANGED <<params, gateway, remoteName, currentRapp, applicationNamespace,
                   capActive, launched, flipped, faults>>
    /\ UNCHANGED calls

\* _process_stop_app, lines 459-460: the call of stop() on the rapp read
StopRapp(t, stopped) ==
    /\ t \in Workers
    /\ pc[t] = "stop_rapp"
    /\ ~stopped => MayFail("rapp")
    /\ LET rapp == frame[t].obj
       IN /\ frame' = [frame EXCEPT ![t].ok = stopped, ![t].conns = Connections(rapp)]
          /\ launched' = IF stopped THEN launched \ {rapp} ELSE launched
    /\ faults' = IF stopped THEN faults ELSE faults + 1
    /\ Goto(t, "stop_flip")
    /\ UNCHANGED <<params, gateway, remoteName, currentRapp, applicationNamespace,
                   capActive, flipped, req, resp>>
    /\ UNCHANGED calls

\* _process_stop_app without the test of resp.stopped at line 469
StopResult_IgnoringResult(t) ==
    /\ Goto(t, "stop_clear")
    /\ frame' = [frame EXCEPT ![t].remote = None, ![t].i = 0]
    /\ UNCHANGED <<req, resp>>

\* _process_stop_app, lines 469 and 498: after the unflips, a rapp that
\* stopped leaves the slot, one that did not ends the call with
\* stopped = False
StopResult(t) ==
    IF frame[t].ok
    THEN /\ Goto(t, "stop_clear")
         /\ frame' = [frame EXCEPT ![t].remote = None, ![t].i = 0]
         /\ UNCHANGED <<req, resp>>
    ELSE ReturnFromStop(t, StopAppResponse(FALSE, StopMessage(FALSE, frame[t].obj),
                                           frame[t].name))

\* _process_stop_app, line 462: if self._remote_name. Each of the calls of
\* lines 463-467 reads the attribute again for its argument.
StopFlip(t) ==
    /\ t \in Workers
    /\ pc[t] = "stop_flip"
    /\ IF remoteName # None /\ NextBatch(frame[t].conns, 1) # 0
       THEN /\ Goto(t, "stop_flip_arg")
            /\ frame' = [frame EXCEPT ![t].i = NextBatch(frame[t].conns, 1)]
            /\ UNCHANGED <<req, resp>>
       ELSE StopResult(t)
    /\ UNCHANGED <<params, gateway, remoteName, currentRapp, applicationNamespace,
                   capActive, launched, flipped, faults>>
    /\ UNCHANGED calls

\* _process_stop_app, lines 463-467: self._remote_name is read for the
\* call of _flip_connections
StopFlipArg(t) ==
    /\ t \in Workers
    /\ pc[t] = "stop_flip_arg"
    /\ frame' = [frame EXCEPT ![t].remote = remoteName]
    /\ Goto(t, "stop_flip_call")
    /\ UNCHANGED <<req, resp>>
    /\ UNCHANGED <<params, gateway, remoteName, currentRapp, applicationNamespace,
                   capActive, launched, flipped, faults>>
    /\ UNCHANGED calls

\* _process_stop_app, lines 463-467, and _flip_connections, line 569: the
\* gateway is asked to unflip one list of the rapp's connections.
StopFlipCall(t, outcome) ==
    /\ t \in Workers
    /\ pc[t] = "stop_flip_call"
    /\ outcome # "ok" => MayFail("gateway")
    /\ faults' = IF outcome = "ok" THEN faults ELSE faults + 1
    /\ LET i == frame[t].i
           kind == ConnectionTypes[i]
       IN /\ flipped' = FlipConnections(flipped, frame[t].remote, frame[t].conns[kind],
                                        kind, TRUE, outcome)
          /\ IF NextBatch(frame[t].conns, i + 1) # 0
             THEN /\ Goto(t, "stop_flip_arg")
                  /\ frame' = [frame EXCEPT ![t].i = NextBatch(frame[t].conns, i + 1),
                                            ![t].remote = None]
                  /\ UNCHANGED <<req, resp>>
             ELSE StopResult(t)
    /\ UNCHANGED <<params, gateway, remoteName, currentRapp, applicationNamespace,
                   capActive, launched>>
    /\ UNCHANGED calls

\* _process_stop_app giving up the controller together with the slot
StopClear_ReleasingController(t) ==
    /\ t \in Workers
    /\ pc[t] = "stop_clear"
    /\ currentRapp' = None
    /\ remoteName' = None
    /\ Goto(t, "pub_test")
    /\ UNCHANGED <<params, gateway, applicationNamespace, capActive,
                   launched, flipped, frame, req, resp, faults>>
    /\ UNCHANGED calls

\* _process_stop_app, line 470: the slot is cleared
StopClear(t) ==
    /\ t \in Workers
    /\ pc[t] = "stop_clear"
    /\ currentRapp' = None
    /\ Goto(t, "pub_test")
    /\ UNCHANGED <<params, gateway, remoteName, applicationNamespace, capActive,
                   launched, flipped, frame, req, resp, faults>>
    /\ UNCHANGED calls

\* The message of a failed stop_capability, lines 477-496
StopCapabilityMessage(cap, outcome) ==
    CASE outcome = "ROSException" ->
            "App Manager : Service for stopping capabilities is not available. Error:"
      [] outcome = "IOError" ->
            "App Manager : Error occurred while processing 'stop_capability' service. Error: "
      [] OTHER ->
            "App Manager : Stopping capability '" \o cap \o " was not successful."

\* _process_stop_app leaving the loop at line 474 after the first capability
\* it has stopped
StopCapability_FirstOnly(t, outcome, slots) ==
    /\ t \in Workers
    /\ pc[t] = "stop_caps"
    /\ outcome # "ok" => MayFail("capabilities")
    /\ outcome = "ok" => slots
    /\ faults' = IF outcome = "ok" THEN faults ELSE faults + 1
    /\ LET caps == RequiredCapabilities(frame[t].name)
           cap == caps[frame[t].i]
       IN IF outcome = "ok"
          THEN /\ capActive' = capActive \ {cap}
               /\ ReturnFromStop(t, StopAppResponse(TRUE, StopMessage(TRUE, frame[t].name), frame[t].name))
          ELSE /\ UNCHANGED capActive
               /\ IF slots
                  THEN RaiseFromStop(t, "AttributeError")
                  ELSE ReturnFromStop(t, StopAppResponse(TRUE, StopCapabilityMessage(cap, outcome), frame[t].name))
    /\ UNCHANGED <<params, gateway, remoteName, currentRapp, applicationNamespace,
                   launched, flipped>>
    /\ UNCHANGED calls

\* _process_stop_app, lines 474-498: one pass of the loop over the required
\* capabilities. On a failure the code first assigns resp.started, which is
\* no field of StopAppResponse: with the generated message class (slots) the
\* assignment raises AttributeError, with a plain object it sets a stray
\* attribute and the response goes out with stopped still True.
StopCapability(t, outcome, slots) ==
    /\ t \in Workers
    /\ pc[t] = "stop_caps"
    /\ outcome # "ok" => MayFail("capabilities")
    /\ outcome = "ok" => slots
    /\ faults' = IF outcome = "ok" THEN faults ELSE faults + 1
    /\ LET caps == RequiredCapabilities(frame[t].name)
           i == frame[t].i
           cap == caps[i]
       IN IF outcome = "ok"
          THEN /\ capActive' = capActive \ {cap}
               /\ IF i = Len(caps)
                  THEN ReturnFromStop(t, StopAppResponse(TRUE, StopMessage(TRUE, frame[t].name), frame[t].name))
                  ELSE /\ frame' = [frame EXCEPT ![t].i = i + 1]
                       /\ UNCHANGED <<pc, req, resp>>
          ELSE /\ UNCHANGED capActive
               /\ IF slots
                  THEN RaiseFromStop(t, "AttributeError")
                  ELSE ReturnFromStop(t, StopAppResponse(TRUE, StopCapabilityMessage(cap, outcome), frame[t].name))
    /\ UNCHANGED <<params, gateway, remoteName, currentRapp, applicationNamespace,
                   launched, flipped>>
    /\ UNCHANGED calls

(***************************************************************************)
(* _monitor_rapp                                                           *)
(***************************************************************************)
\* _monitor_rapp, line 512: the loop condition
MonitorLoop(m) ==
    /\ m \in Monitors
    /\ pc[m] = "m_loop"
    /\ Goto(m, IF currentRapp # None THEN "m_poll" ELSE "dead")
    /\ UNCHANGED <<params, gateway, remoteName, currentRapp, applicationNamespace,
                   capActive, launched, flipped, frame, req, resp, faults>>
    /\ UNCHANGED calls

\* rapp.is_running()
IsRunning(app) == app \in launched

\* _monitor_rapp, line 513: self._current_rapp is read again for the call
\* of is_running, an AttributeError that ends the thread when the slot has
\* been cleared since line 512
MonitorPoll(m) ==
    /\ m \in Monitors
    /\ pc[m] = "m_poll"
    /\ IF currentRapp = None
       THEN /\ Goto(m, "dead")
            /\ UNCHANGED frame
       ELSE /\ Goto(m, "m_running")
            /\ frame' = [frame EXCEPT ![m].obj = currentRapp]
    /\ UNCHANGED <<params, gateway, remoteName, currentRapp, applicationNamespace,
                   capActive, launched, flipped, req, resp, faults>>
    /\ UNCHANGED calls

\* _monitor_rapp, lines 513-516: is_running() of the rapp read; a rapp that
\* has ended takes the thread into _process_stop_app, else it sleeps and
\* tests the slot again
MonitorRunning(m) ==
    /\ m \in Monitors
    /\ pc[m] = "m_running"
    /\ Goto(m, IF IsRunning(frame[m].obj) THEN "m_loop" ELSE "stop_check")
    /\ frame' = [frame EXCEPT ![m] = NoFrame]
    /\ UNCHANGED <<params, gateway, remoteName, currentRapp, applicationNamespace,
                   capActive, launched, flipped, req, resp, faults>>
    /\ UNCHANGED calls

\* The launched rapp ends by itself.
RappExits(app) ==
    /\ app \in launched
    /\ launched' = launched \ {app}
    /\ UNCHANGED <<params, gateway, remoteName, currentRapp, applicationNamespace,
                   capActive, flipped, threads, faults>>
    /\ UNCHANGED calls

(***************************************************************************)
(* The specification                                                       *)
(***************************************************************************)
Next ==
    \/ \E name \in {gatewayInfo} \ {None} : Spin(name)
    \/ InitServicesTest
    \/ InitServicesShutdown
    \/ InitServicesClearServices
    \/ InitServicesClearPublishers
    \/ InitServicesClearNames
    \/ InitServicesNames
    \/ InitServicesNamespace
    \/ \E raised \in BOOLEAN : InitServicesCreate(raised)
    \/ InitServicesStore
    \/ \E raised \in BOOLEAN : InitServicesUpdate(raised)
    \/ \E t \in Threads : PublishTest(t)
    \/ \E t \in Threads : PublishKey(t)
    \/ \E t \in Threads : PublishRapp(t)
    \/ \E h \in Handlers, remote \in Remotes, cancel \in BOOLEAN,
          ns \in NamespaceOverrides : ProcessInvite(h, remote, cancel, ns)
    \/ \E h \in Handlers : InviteCheck(h)
    \/ \E h \in Handlers : InviteGateway(h)
    \/ \E h \in Handlers : InviteNamespace(h)
    \/ \E h \in Handlers : InviteNames(h)
    \/ \E h \in Handlers, outcome \in FlipOutcomes : InviteFlip(h, outcome)
    \/ \E h \in Handlers : InviteFinal(h)
    \/ \E h \in Handlers : InviteRapp(h)
    \/ \E h \in Handlers : InviteClear(h)
    \/ \E h \in Handlers : InviteAdopt(h)
    \/ \E h \in Handlers, name \in AppNames : StartAppRequest(h, name)
    \/ \E h \in Handlers : StartNamespace(h)
    \/ \E h \in Handlers : StartCheck(h)
    \/ \E h \in Handlers : StartRunning(h)
    \/ \E h \in Handlers, outcome \in CapOutcomes : StartCapability(h, outcome)
    \/ \E h \in Handlers : StartRappNamespace(h)
    \/ \E h \in Handlers, started \in BOOLEAN : StartRapp(h, started)
    \/ \E h \in Handlers : StartFlip(h)
    \/ \E h \in Handlers : StartFlipArg(h)
    \/ \E h \in Handlers, outcome \in FlipOutcomes : StartFlipCall(h, outcome)
    \/ \E h \in Handlers : StartOccupy(h)
    \/ \E h \in Handlers : StartMonitor(h)
    \/ \E h \in Handlers : StopAppRequest(h)
    \/ \E t \in Workers : StopCheck(t)
    \/ \E t \in Workers : StopName(t)
    \/ \E t \in Workers : StopRappRead(t)
    \/ \E t \in Workers, stopped \in BOOLEAN : StopRapp(t, stopped)
    \/ \E t \in Workers : StopFlip(t)
    \/ \E t \in Workers : StopFlipArg(t)
    \/ \E t \in Workers, outcome \in FlipOutcomes : StopFlipCall(t, outcome)
    \/ \E t \in Workers : StopClear(t)
    \/ \E t \in Workers, outcome \in CapOutcomes, slots \in BOOLEAN : StopCapability(t, outcome, slots)
    \/ \E m \in Monitors : MonitorLoop(m)
    \/ \E m \in Monitors : MonitorPoll(m)
    \/ \E m \in Monitors : MonitorRunning(m)
    \/ \E app \in AppNames : RappExits(app)
    \/ \E h \in Handlers : Reply(h)

Spec == Init /\ [][Next]_vars

SerialSpec == SerialInit /\ [][Next]_vars

TypeOK ==
    /\ remoteName \in Remotes \cup {None}
    /\ currentRapp \in apps.runnable \cup {None}
    /\ capActive \subseteq Capabilities
    /\ launched \subseteq apps.runnable
    /\ flipped \subseteq (Remotes \cup {None}) \X Kinds \X STRING
    /\ faults \in 0..failures
    /\ failures \in 1..MaxFaults
    /\ calls \in 0..MaxSerialRequests
    /\ clients \in 1..MaxHandlers
    /\ early \in BOOLEAN
    /\ budget \in 1..MaxSerialRequests
    /\ initialisingServices \in BOOLEAN
    /\ services \subseteq ServiceKeys \X (0..(MaxFaults + 1))
    /\ registered \subseteq ServiceKeys \X (0..(MaxFaults + 1))
    /\ pc[Main] \in {"spin", "init_services", "init_shutdown", "init_clear_services",
                     "init_clear_publishers", "init_clear_names", "init_names",
                     "init_namespace", "init_create", "init_store", "init_update",
                     "pub_test", "pub_key", "pub_rapp", "done", "crashed"}
    /\ \A m \in Monitors :
          pc[m] \in {"dead", "m_loop", "m_poll", "m_running", "stop_check", "stop_name",
                     "stop_rapp_read", "stop_rapp", "stop_flip", "stop_flip_arg",
                     "stop_flip_call", "stop_clear", "pub_test", "pub_key", "pub_rapp",
                     "stop_caps"}
    /\ \A h \in Handlers :
          /\ req[h].op \in {"none", "invite", "start", "stop"}
          /\ resp[h].op \in {"none", "invite", "start", "stop"}
          /\ pc[h] = "reply" <=> resp[h].op # "none"
          /\ pc[h] = "idle" => req[h] = NoReq /\ frame[h] = NoFrame
    /\ \A t \in Threads : frame[t].i \in 0..Len(ServiceOrder)

(***************************************************************************)
(* What the gateway exposes                                                *)
(***************************************************************************)
\* The names start_app and stop_app can be bound under (_init_services)
ControlNames ==
    UNION {{ServiceNamesFor(b).start_app, ServiceNamesFor(b).stop_app} :
              b \in {RobotName} \cup ({d.gateway_info : d \in Deployments} \ {None})}

\* The remote systems start_app or stop_app is flipped to
ControlExposedTo ==
    {r \in Remotes : \E n \in ControlNames : <<r, "service", n>> \in flipped}

\* The <<remote, rapp>> pairs with a connection of the rapp flipped to the
\* remote
EndpointsExposed ==
    {<<r, a>> \in Remotes \X AppNames :
        \E k \in Kinds : \E n \in Connections(a)[k] : <<r, k, n>> \in flipped}

\* No request is being served and no call to a collaborator has failed.
Quiet == (\A h \in Handlers : pc[h] = "idle") /\ faults = 0

\* The thread is in _process_stop_app, past the test of line 449 and before
\* line 470, where the slot is cleared.
PastStopCheck(t) ==
    pc[t] \in {"stop_name", "stop_rapp_read", "stop_rapp", "stop_flip", "stop_flip_arg",
               "stop_flip_call", "stop_clear"}

\* The thread has called stop() on the rapp in the slot and has not reached
\* line 470.
Stopping(t) == pc[t] \in {"stop_flip", "stop_flip_arg", "stop_flip_call", "stop_clear"}

\* The thread is in _process_stop_app or in the _publish_app_list it calls.
InStop(t) ==
    /\ pc[t] \in {"stop_check", "stop_name", "stop_rapp_read", "stop_rapp", "stop_flip",
                  "stop_flip_arg", "stop_flip_call", "stop_clear", "pub_test", "pub_key",
                  "pub_rapp", "stop_caps"}
    /\ t \in Handlers => req[t].op \in {"stop", "invite"}

\* The thread takes a step.
Steps(t) == pc'[t] # pc[t] \/ frame'[t] # frame[t]

\* The handler thread takes up a request in this step.
Takes(h) == pc[h] = "idle" /\ pc'[h] # "idle"

\* The handler thread's callback returns in this step.
Returns(h) == pc[h] # "reply" /\ pc'[h] = "reply"

\* What the program holds besides the positions of its threads
Effects == <<currentRapp, remoteName, applicationNamespace, capActive, launched, flipped>>

(***************************************************************************)
(* Claims                                                                  *)
(***************************************************************************)
\* C1: when the stop_app service and a monitor thread both act on one
\* running rapp, one of them stops it and the other finds the slot empty;
\* stop() is never called twice for one run. A handler of stop_app and a
\* monitor thread that are both between their call of stop() and line 470
\* have both called stop() on the rapp in the slot: the claim says that
\* never happens.
C1_OneStopPerRun ==
    \A h \in Handlers, m \in Monitors :
        ~(Stopping(h) /\ req[h].op = "stop" /\ Stopping(m))

\* C2 (invariant A): whenever a rapp occupies the slot, every capability it
\* requires is started.
C2_InvariantA ==
    currentRapp # None =>
        \A i \in 1..Len(RequiredCapabilities(currentRapp)) :
            RequiredCapabilities(currentRapp)[i] \in capActive

\* C3 (invariant B): between requests, start_app and stop_app are flipped to
\* at most one remote system, the controller, and to none when there is no
\* controller. Stated for the behaviours in which no call has failed.
C3_InvariantB ==
    Quiet => /\ Cardinality(ControlExposedTo) <= 1
             /\ remoteName # None => ControlExposedTo \subseteq {remoteName}
             /\ remoteName = None => ControlExposedTo = {}

\* C4 (invariant C): between requests, a rapp's connections are flipped to a
\* remote system only if the rapp is in the slot and the remote system is the
\* controller. Stated for the behaviours in which no call has failed.
C4_InvariantC ==
    Quiet => \A e \in EndpointsExposed : e[2] = currentRapp /\ e[1] = remoteName

\* C5: start_app answers started=True only if the slot was empty when the
\* request came in and the name was runnable, and the slot then holds the
\* rapp of that name.
C5_StartOnlyFromEmptySlot ==
    [][\A h \in Handlers :
          (Returns(h) /\ resp'[h].op = "start" /\ resp'[h].ok)
          => /\ req[h].op = "start"
             /\ req[h].slot0 = None
             /\ req[h].name \in apps.runnable
             /\ resp'[h].name = req[h].name
             /\ currentRapp' = req[h].name]_vars

\* C6: with the requests served one after the other, at no time are two
\* rapps running.
C6_AtMostOneRunning == Cardinality(launched) <= 1

\* C7: _process_stop_app that finds the slot empty (line 449) stops nothing,
\* flips nothing, stops no capability and leaves both slots as they are; the
\* stop_app service answers stopped=False with the not-running message.
C7_StopOnEmptySlot ==
    [][\A t \in Workers :
          (pc[t] = "stop_check" /\ Steps(t) /\ currentRapp = None)
          => /\ UNCHANGED Effects
             /\ (t \in Monitors) => pc'[t] = "dead"
             /\ (t \in Handlers /\ req[t].op = "invite") => pc'[t] = "inv_clear"
             /\ (t \in Handlers /\ req[t].op = "stop") =>
                   /\ pc'[t] = "reply"
                   /\ resp'[t].op = "stop"
                   /\ ~resp'[t].ok
                   /\ resp'[t].msg = "tried to stop a rapp, but no rapp found running"]_vars

C7_Witness ==
    \E h \in Handlers :
        /\ pc[h] = "reply" /\ resp[h].op = "stop" /\ ~resp[h].ok
        /\ resp[h].msg = "tried to stop a rapp, but no rapp found running"
        /\ currentRapp = None /\ launched = {} /\ calls = 1

\* C8: a StartApp and a StopApp that both succeed, with no capability that
\* failed to start or stop, leave the slot empty and every capability the
\* rapp requires stopped. Stated for the behaviours these two requests are
\* alone in, at the return of the StopApp.
C8_StopUndoesStart ==
    \A h \in Handlers :
        (pc[h] = "reply" /\ resp[h].op = "stop" /\ resp[h].ok
            /\ resp[h].msg = "Success" /\ calls = 2)
        => /\ currentRapp = None
           /\ \A i \in 1..Len(RequiredCapabilities(resp[h].name)) :
                 RequiredCapabilities(resp[h].name)[i] \notin capActive

C8_Witness ==
    \E h \in Handlers :
        /\ pc[h] = "reply" /\ resp[h].op = "stop" /\ resp[h].ok /\ resp[h].msg = "Success"
        /\ resp[h].name = "nav_app" /\ currentRapp = None /\ capActive = {}
        /\ calls = 2

\* C9: the controller slot is empty or holds one remote system, and that one
\* is on the whitelist, or the whitelist is empty and it is not on the
\* blacklist.
C9_ControllerPassedPolicy ==
    /\ remoteName \in Remotes \cup {None}
    /\ remoteName # None =>
          \/ remoteName \in whitelist
          \/ whitelist = {} /\ remoteName \notin blacklist

C9_Witness ==
    remoteName = "anyone" /\ whitelist = {} /\ blacklist = {"banned"}

\* The handler thread takes up an invitation in this step.
InviteStep(h) == Takes(h) /\ (resp'[h].op = "invite" \/ req'[h].op = "invite")

\* The remote system the invitation of this step names
InviteRequester(h) == IF pc'[h] = "reply" THEN resp'[h].name ELSE req'[h].name

\* The whitelist/blacklist policy, as the specification words it
Admitted(r) == r \in whitelist \/ (whitelist = {} /\ r \notin blacklist)

\* The handler thread returns from an invitation (not a cancel) that has got
\* through the flip of start_app and stop_app.
InvitationEnds(h) ==
    pc[h] = "inv_adopt" /\ pc'[h] = "reply" /\ req[h].op = "invite" /\ ~req[h].cancel

\* C10: an invitation from a remote system that is neither on the whitelist
\* nor, with the whitelist empty, off the blacklist is answered False and
\* changes nothing; any other is handed to _accept_invitation, and one that
\* gets through the flip is answered True and makes the remote system the
\* controller. With whitelist [ops-console] and an empty blacklist that is
\* ops-console and not intruder; with an empty whitelist and blacklist
\* [banned] that is anyone and not banned.
C10_InvitePolicy ==
    [][\A h \in Handlers :
          /\ InviteStep(h) =>
                LET r == InviteRequester(h)
                IN /\ UNCHANGED Effects
                   /\ ~Admitted(r) => (pc'[h] = "reply" /\ ~resp'[h].ok)
                   /\ Admitted(r) => pc'[h] = "inv_check"
                   /\ (whitelist = {"ops-console"} /\ blacklist = {} /\ r = "intruder") =>
                         (pc'[h] = "reply" /\ ~resp'[h].ok)
                   /\ (whitelist = {} /\ blacklist = {"banned"} /\ r = "banned") =>
                         (pc'[h] = "reply" /\ ~resp'[h].ok)
          /\ InvitationEnds(h) =>
                /\ Admitted(req[h].name)
                /\ resp'[h].ok /\ remoteName' = req[h].name
          /\ (whitelist = {"ops-console"} /\ blacklist = {} /\ Returns(h)
                 /\ resp'[h].op = "invite" /\ resp'[h].msg = "invite"
                 /\ resp'[h].name = "ops-console") =>
                (resp'[h].ok /\ remoteName' = "ops-console")
          /\ (whitelist = {} /\ blacklist = {"banned"} /\ InvitationEnds(h)
                 /\ req[h].name = "anyone") =>
                (resp'[h].ok /\ remoteName' = "anyone")]_vars

C10_Witness ==
    \E h \in Handlers :
        /\ pc[h] = "reply" /\ resp[h].op = "invite" /\ resp[h].msg = "invite"
        /\ resp[h].ok /\ resp[h].name = "ops-console" /\ remoteName = "ops-console"
        /\ whitelist = {"ops-console"} /\ blacklist = {}

\* C11: when the flip of start_app/stop_app fails in an invitation (not a
\* cancel) the policy admits, the invitation is answered False there and
\* then, so that the controller stays who it was.
C11_FailedExposureRefused ==
    [][\A h \in Handlers :
          (pc[h] = "inv_flip" /\ Steps(h) /\ ~req[h].cancel
              /\ Admitted(req[h].name) /\ faults' > faults)
          => (pc'[h] = "reply" /\ ~resp'[h].ok /\ remoteName' = remoteName)]_vars

\* The handler thread makes the abort checks of _accept_invitation in this
\* step.
AbortChecks(h) == pc[h] = "inv_check" /\ Steps(h)

\* C12: a cancel from a remote system the policy admits that is not the
\* controller (there may be none) is answered False and changes nothing:
\* controller, namespace, flipped connections and the running rapp stay.
C12_ForeignCancelRefused ==
    [][\A h \in Handlers :
          (AbortChecks(h) /\ req[h].cancel /\ Admitted(req[h].name)
              /\ req[h].name # remoteName)
          => /\ pc'[h] = "reply" /\ ~resp'[h].ok
             /\ UNCHANGED <<remoteName, applicationNamespace, flipped, currentRapp,
                            launched, capActive, serviceNames>>]_vars

C12_Witness ==
    \E h \in Handlers :
        /\ pc[h] = "reply" /\ resp[h].op = "invite" /\ resp[h].msg = "cancel" /\ ~resp[h].ok
        /\ resp[h].name = "ops-console" /\ Admitted("ops-console")
        /\ remoteName = "anyone" /\ currentRapp = "chatter"
        /\ ControlExposedTo = {"anyone"}

\* C13: the controller's cancel unflips start_app/stop_app from it, runs
\* _process_stop_app when a rapp is in the slot, and ends with no controller;
\* the controller is cleared only after the stop. Stated for the behaviours
\* in which no call to a collaborator has failed.
C13_ControllerCancel ==
    [][\A h \in Handlers :
          /\ (pc[h] = "inv_flip" /\ pc'[h] = "inv_final" /\ req[h].cancel
                 /\ faults' = faults) =>
                \A n \in {serviceNames.start_app, serviceNames.stop_app} :
                    <<req[h].name, "service", n>> \notin flipped'
          /\ (pc[h] = "inv_rapp" /\ Steps(h) /\ currentRapp # None) =>
                (pc'[h] = "stop_check" /\ remoteName' = remoteName)
          /\ (req[h].op = "invite" /\ req[h].cancel /\ pc[h] # "inv_check"
                 /\ Returns(h) /\ faults' = 0) =>
                (resp'[h].ok /\ remoteName' = None)]_vars

\* C14: an invitation (not a cancel) from the remote system that is the
\* controller already is answered True and changes nothing: controller,
\* namespace and flipped connections stay, and no flip is asked for (so none
\* can fail).
C14_RepeatInvite ==
    [][\A h \in Handlers :
          (AbortChecks(h) /\ ~req[h].cancel /\ Admitted(req[h].name)
              /\ req[h].name = remoteName)
          => /\ pc'[h] = "reply" /\ resp'[h].ok
             /\ faults' = faults
             /\ UNCHANGED <<remoteName, applicationNamespace, flipped, currentRapp,
                            launched, capActive, serviceNames>>]_vars

\* The answer to an invitation that came after the controller had started
\* chatter and still is the only one holding start_app/stop_app: a repeat.
C14_Witness ==
    \E h \in Handlers :
        /\ pc[h] = "reply" /\ resp[h].op = "invite" /\ resp[h].msg = "invite" /\ resp[h].ok
        /\ resp[h].name = remoteName /\ remoteName = "ops-console"
        /\ currentRapp = "chatter" /\ <<remoteName, "publisher", "chatter">> \in flipped
        /\ ControlExposedTo = {remoteName}

\* The monitor threads this step starts
MonitorsLaunched == {m \in Monitors : pc[m] = "dead" /\ pc'[m] # "dead"}

\* The request of this step is turned down with this message and nothing
\* else happens.
StartRefusedWith(h, message) ==
    /\ pc'[h] = "reply" /\ resp'[h].op = "start" /\ ~resp'[h].ok /\ resp'[h].msg = message
    /\ MonitorsLaunched = {}
    /\ UNCHANGED Effects

\* C15: start_app tests (1) that the slot is empty, (2) that the name is
\* installed, (3) that it is runnable, in this order; the first test that
\* fails answers started=False with its own message and nothing changes: no
\* capability started, no rapp started, nothing flipped, no monitor thread,
\* the slot as it was.
C15_StartChecksInOrder ==
    [][\A h \in Handlers :
          /\ (pc[h] = "start_check" /\ Steps(h)) =>
                /\ currentRapp # None => (pc'[h] = "start_running" /\ UNCHANGED Effects)
                /\ (currentRapp = None /\ req[h].name \notin apps.pre_installed) =>
                      StartRefusedWith(h, "The requested app '" \o req[h].name
                                          \o "' is not installed.")
                /\ (currentRapp = None /\ req[h].name \in apps.pre_installed
                       /\ req[h].name \notin apps.runnable) =>
                      StartRefusedWith(h, "The requested app '" \o req[h].name
                                          \o "' is installed, but cannot be started"
                                          \o ", because its required capabilities are not available.")
          /\ (pc[h] = "start_running" /\ Steps(h)) =>
                \E name \in AppNames :
                    StartRefusedWith(h, "an app is already running [" \o name \o "]")]_vars

\* The messages of start_app that report an exception of the capability
\* service rather than a capability that did not start
CapabilityServiceErrors ==
    {"App Manager : Service for starting capabilities is not available. Will not start app. Error:",
     "App Manager : Error occurred while processing 'start_capability' service. Will not start app. Error: "}

\* C16: start_app starts the required capabilities in the order of their
\* declaration; at the first that does not start it answers started=False
\* with a message that names it, starts no later capability and no rapp,
\* leaves the slot as it is and leaves the capabilities it has started
\* running. A capability does not start when start_capability answers
\* False; when the call raises instead, all of this holds as well, except
\* that the message carries the exception's text (lines 388-399).
C16_CapabilityStartAborts ==
    [][\A h \in Handlers :
          /\ (pc[h] = "start_check" /\ pc'[h] = "start_caps") => frame'[h].i = 1
          /\ (pc[h] = "start_caps" /\ Steps(h)) =>
                LET caps == RequiredCapabilities(frame[h].name)
                    i == frame[h].i
                IN \/ /\ i < Len(caps) /\ pc'[h] = "start_caps"
                      /\ frame'[h].i = i + 1
                      /\ capActive' = capActive \cup {caps[i]}
                      /\ faults' = faults
                   \/ /\ i = Len(caps) /\ pc'[h] = "start_rapp_namespace"
                      /\ capActive' = capActive \cup {caps[i]}
                      /\ faults' = faults
                   \/ /\ pc'[h] = "reply" /\ resp'[h].op = "start" /\ ~resp'[h].ok
                      /\ faults' > faults
                      /\ resp'[h].name = frame[h].name
                      /\ resp'[h].msg \notin CapabilityServiceErrors =>
                            resp'[h].msg = "App Manager : Starting capability '" \o caps[i]
                                           \o " was not successful. Will not start app."
                      /\ MonitorsLaunched = {}
                      /\ UNCHANGED <<currentRapp, capActive, launched, flipped>>]_vars

\* odometry, the second capability of nav_app, did not start: lidar_driver
\* stays started, nav_app is not started, the slot is empty.
C16_Witness ==
    \E h \in Handlers :
        /\ pc[h] = "reply" /\ resp[h].op = "start" /\ ~resp[h].ok /\ resp[h].name = "nav_app"
        /\ resp[h].msg = "App Manager : Starting capability 'odometry was not successful. Will not start app."
        /\ capActive = {"lidar_driver"} /\ currentRapp = None /\ launched = {}

\* C17: when a required capability does not stop during stop_app (it answers
\* False or the capability service raises), the capabilities after it are
\* left alone and the caller is answered stopped=False with the message
\* _process_stop_app composes for that capability.
C17_CapabilityStopFailureSurfaced ==
    [][\A h \in Handlers :
          (pc[h] = "stop_caps" /\ req[h].op = "stop" /\ pc'[h] = "reply"
              /\ faults' > faults)
          => LET cap == RequiredCapabilities(frame[h].name)[frame[h].i]
             IN /\ UNCHANGED capActive
                /\ resp'[h].op = "stop" /\ ~resp'[h].ok
                /\ resp'[h].msg \in {StopCapabilityMessage(cap, o) : o \in CapOutcomes \ {"ok"}}]_vars

\* The thread's call of the gateway in _process_start_app or
\* _process_stop_app fails in this step: the call raises ServiceException
\* or the gateway rejects the batch.
FlipFails(t, at) == pc[t] = at /\ Steps(t) /\ faults' > faults

Polling == {m \in Monitors : pc[m] \in {"m_poll", "m_running"}}

\* The monitor threads inside _process_stop_app that have passed the test of
\* line 449 and have not cleared the slot yet
MonitorsStopping == {m \in Monitors : PastStopCheck(m)}

\* C19: a monitor thread acts on the run it was started for only. After
\* stop_app has cleared the slot it ends at its next look at the slot, also
\* when another rapp has been started by then, so no two monitor threads
\* watch one run.
C19_OneMonitorPerRun == Cardinality(Polling) <= 1

\* C20: the end of a rapp by itself makes the monitor call _process_stop_app
\* once: no two calls without a request are past the test of line 449 for
\* the rapp in the slot.
C20_OneAutoStop == Cardinality(MonitorsStopping) <= 1

\* The thread takes a step of _process_stop_app's capability loop.
StopCapabilityStep(t) == pc[t] = "stop_caps" /\ Steps(t)

\* The thread ends its last call of _flip_connections in _process_stop_app,
\* or finds at line 462 that it has none to make: the test of line 469
\* follows.
StopTested(t) ==
    /\ pc[t] \in {"stop_flip", "stop_flip_call"} /\ Steps(t)
    /\ pc'[t] # "stop_flip_arg"

\* C21: _process_stop_app clears the slot and goes on to the capabilities
\* only when the rapp's stop() reported success; after a failed stop() it
\* leaves the rapp in the slot and stops no capability. On success the slot
\* is cleared before the first stop_capability, the capabilities are stopped
\* in the order of their declaration, and the first that does not stop ends
\* the loop with the later ones still started.
C21_TeardownOnlyAfterStop ==
    [][\A t \in Workers :
         /\ StopTested(t) =>
               /\ UNCHANGED <<currentRapp, capActive>>
               /\ frame[t].ok => pc'[t] = "stop_clear"
               /\ ~frame[t].ok => pc'[t] \in {"reply", "inv_clear", "dead"}
         /\ (pc[t] = "stop_clear" /\ Steps(t)) =>
               /\ frame[t].ok
               /\ currentRapp' = None
               /\ pc'[t] = "pub_test"
               /\ UNCHANGED capActive
         /\ (InStop(t) /\ pc[t] \in {"pub_test", "pub_key", "pub_rapp"} /\ Steps(t)) =>
               /\ UNCHANGED <<currentRapp, capActive>>
               /\ pc'[t] = "stop_caps" => frame'[t].i = 1
         /\ StopCapabilityStep(t) =>
               LET caps == RequiredCapabilities(frame[t].name)
                   i == frame[t].i
               IN \/ /\ i < Len(caps) /\ pc'[t] = "stop_caps"
                     /\ frame'[t].i = i + 1
                     /\ capActive' = capActive \ {caps[i]}
                     /\ faults' = faults
                  \/ /\ i = Len(caps) /\ pc'[t] # "stop_caps"
                     /\ capActive' = capActive \ {caps[i]}
                     /\ faults' = faults
                  \/ /\ pc'[t] # "stop_caps" /\ faults' > faults
                     /\ UNCHANGED capActive]_vars

\* stop_app has answered stopped=False because nav_app's stop() failed:
\* nav_app keeps the slot and both its capabilities are still started.
C21_Witness ==
    \E h \in Handlers :
        /\ pc[h] = "reply" /\ resp[h].op = "stop" /\ ~resp[h].ok /\ resp[h].name = "nav_app"
        /\ resp[h].msg = "Error while stopping rapp 'nav_app'."
        /\ currentRapp = "nav_app" /\ capActive = {"lidar_driver", "odometry"}

\* The handler thread is in _accept_invitation itself in this step, not in
\* the _process_stop_app it calls.
InvitationStep(h) ==
    \/ InviteStep(h)
    \/ /\ pc[h] \in {"inv_check", "inv_gateway", "inv_namespace", "inv_names", "inv_flip",
                     "inv_final", "inv_rapp", "inv_clear", "inv_adopt"}
       /\ Steps(h)

\* C22: the controller is changed by invitations only, never by start_app,
\* stop_app or a monitor thread; the slot of the rapp is changed by
\* _process_start_app and _process_stop_app only, and an invitation gets at it
\* only through the _process_stop_app its cancel by the controller calls: an
\* invitation that is refused or is no cancel leaves the slot alone.
C22_SlotOwnership ==
    [][/\ remoteName' # remoteName =>
             \E h \in Handlers : pc[h] \in {"inv_adopt", "inv_clear"} /\ pc'[h] = "reply"
       /\ currentRapp' # currentRapp =>
             \/ \E h \in Handlers : pc[h] = "start_occupy" /\ pc'[h] = "pub_test"
             \/ \E t \in Workers : pc[t] = "stop_clear" /\ pc'[t] = "pub_test"
       /\ \A h \in Handlers :
             /\ InvitationStep(h) => currentRapp' = currentRapp
             /\ (pc[h] = "inv_final" /\ pc'[h] = "inv_rapp") =>
                   (req[h].cancel /\ req[h].name = remoteName)
             /\ (pc[h] # "inv_rapp" /\ pc'[h] = "inv_rapp") => pc[h] = "inv_final"
             /\ (req[h].op = "invite" /\ pc[h] # "stop_check" /\ pc'[h] = "stop_check") =>
                   pc[h] = "inv_rapp"
             /\ (InStop(h) /\ req[h].op = "invite") => req[h].cancel]_vars

\* stop_app has stopped chatter and cleared its slot; ops-console is the
\* controller as before.
C22_Witness ==
    \E h \in Handlers :
        /\ pc[h] = "reply" /\ resp[h].op = "stop" /\ resp[h].ok /\ resp[h].name = "chatter"
        /\ currentRapp = None /\ remoteName = "ops-console"
        /\ ControlExposedTo = {"ops-console"}

\* This step is the return of a granted invitation that puts a new
\* controller in place.
InviteAdopts(h) ==
    /\ InvitationEnds(h) /\ resp'[h].ok
    /\ remoteName' # remoteName /\ remoteName' = req[h].name

\* C23: a granted invitation that adopts a new controller leaves the
\* application namespace at the request's override when that is not empty,
\* else at '<gateway name>/application' when the gateway name is known, else
\* at 'application'; while that controller stays, only an invitation changes
\* the namespace; and a StartApp hands the rapp's start the namespace it
\* returns in its response.
C23_Namespace ==
    [][\A h \in Handlers :
          /\ InviteAdopts(h) =>
                applicationNamespace' =
                    IF req[h].ns # "" THEN req[h].ns
                    ELSE IF gatewayName # None THEN gatewayName \o "/application"
                    ELSE "application"
          /\ (remoteName # None /\ remoteName' = remoteName
                 /\ applicationNamespace' # applicationNamespace) =>
                \E g \in Handlers : pc[g] = "inv_namespace" /\ Steps(g)
          /\ (pc[h] = "start_rapp" /\ Steps(h)) => frame[h].ns = req[h].ns]_vars

\* The main thread is inside _init_services, past the test of the flag.
InitServicesRuns == pc[Main] \notin {"spin", "done", "crashed"} /\ ~frame[Main].ok

\* The main thread leaves _init_services in this step.
InitServicesLeft ==
    InitServicesRuns /\ (pc'[Main] \in {"spin", "done", "crashed"} \/ frame'[Main].ok)

\* C24: a call of _init_services made while the flag is set returns False
\* and leaves the registered services alone; a call that returns True leaves
\* exactly one live registration of every service and publisher, the one
\* self._services holds; and whichever way a call that got past the test is
\* left, by a return or by an exception, the flag is cleared.
C24_Rebind ==
    [][/\ (pc[Main] = "spin" /\ initialisingServices) =>
             UNCHANGED <<pc, services, registered, initialisingServices>>
       /\ (InitServicesLeft /\ pc'[Main] # "crashed" /\ faults' = faults) =>
             (/\ registered' = services'
              /\ \A key \in ServiceKeys :
                    Cardinality({o \in registered' : o[1] = key}) = 1)
       /\ InitServicesLeft => ~initialisingServices']_vars

\* C25: a monitor thread is started only by the return of a StartApp that
\* answers started = True, and that return starts exactly one; a StartApp
\* whose rapp.start fails returns without touching the slot, with no monitor
\* started and the capabilities as its capability loop left them: nothing
\* but the capability loop of _process_stop_app ever takes a capability
\* down.
C25_MonitorLaunch ==
    [][/\ MonitorsLaunched # {} =>
             \E h \in Handlers :
                 /\ pc[h] = "start_monitor" /\ pc'[h] = "reply"
                 /\ resp'[h].op = "start" /\ resp'[h].ok
       /\ \A h \in Handlers :
             /\ (Returns(h) /\ resp'[h].op = "start" /\ resp'[h].ok) =>
                   (/\ Cardinality(MonitorsLaunched) = 1
                    /\ \A m \in MonitorsLaunched : pc'[m] = "m_loop")
             /\ (pc[h] = "start_flip" /\ Steps(h) /\ ~frame[h].ok) =>
                   (/\ pc'[h] = "reply" /\ resp'[h].op = "start" /\ ~resp'[h].ok
                    /\ resp'[h].msg = "Error while launching " \o resp'[h].name
                    /\ currentRapp' = currentRapp
                    /\ MonitorsLaunched = {}
                    /\ capActive' = capActive)
             /\ (pc[h] = "start_occupy" /\ Steps(h)) => frame[h].ok
       /\ ~(capActive \subseteq capActive') => \E t \in Workers : StopCapabilityStep(t)]_vars

\* nav_app failed to launch after both of its capabilities had been started
C25_Witness ==
    \E h \in Handlers :
        /\ pc[h] = "reply" /\ resp[h].op = "start" /\ ~resp[h].ok
        /\ resp[h].msg = "Error while launching nav_app"
        /\ capActive = {"lidar_driver", "odometry"}
        /\ currentRapp = None
        /\ \A m \in Monitors : pc[m] = "dead"
        /\ launched = {}

\* The monitor thread reads self._current_rapp for the call of is_running in
\* this step
MonitorPolls(m) == pc[m] = "m_poll" /\ Steps(m)

\* C26: whenever a monitor thread calls is_running (line 513), the slot it
\* reads for the call holds a rapp.
C26_PollsOccupiedSlot ==
    [][\A m \in Monitors : MonitorPolls(m) => currentRapp # None]_vars

====
